---- MODULE Spec2Model ----
(***************************************************************************)
(* BaseSplit: the payment-request lifecycle and the client-side            *)
(* synchronisation logic of the web client, together with the hosted       *)
(* tables it talks to.                                                     *)
(*                                                                         *)
(* The backend (supabase) is modelled by its tables and by the constraints *)
(* and row-level policies of supabase/schema.sql.  A client is one browser *)
(* session running the app (app/page.tsx, components/RequestsTab.tsx).     *)
(* An async handler is split at its awaits where another party can act in  *)
(* between; the synchronous part of a handler is one step.                 *)
(*                                                                         *)
(* React effects run right after the step that changed one of their        *)
(* dependencies (they are part of that step).  React may also re-invoke an *)
(* effect without a dependency change (Strict Mode, Fast Refresh, a        *)
(* re-shown subtree): that is the separate step ReplayEffects.             *)
(***************************************************************************)
EXTENDS Integers, Sequences, FiniteSets, Bags, TLC

(***************************************************************************)
(* Bounds of the model                                                     *)
(***************************************************************************)
MaxRequests == 2        \* rows of payment_requests
MaxUpdateCalls == 2     \* status updates issued over a run
MaxTx == 1              \* transactions the wallet SDK confirms over a run
MaxContacts == 2        \* rows of contacts
MaxRecipients == 2      \* recipients of one form submission
MaxLoads == 1           \* loadPaymentRequests calls one session has in flight
MaxStored == 21         \* rows a table holds when the page is opened on a long history
MaxSignIns == 2         \* sign-ins over a run of a session that also signs out
MaxAmountLen == 5       \* characters typed into an amount field
MaxUSDC == 2000         \* largest amount a modal stores, so that micro-units fit an integer

(***************************************************************************)
(* Program constants                                                       *)
(***************************************************************************)
MAX_CACHED_ITEMS == 20
MICRO == 1000000

(***************************************************************************)
(* Wallet addresses.  An address is a sequence of characters, so that      *)
(* lowercasing is computed and not assumed.  The wallet SDK hands out      *)
(* checksummed (mixed-case) addresses.                                     *)
(***************************************************************************)
AddrA == <<"0", "x", "A", "1">>
AddrB == <<"0", "x", "b", "E">>
NoAddress == <<>>

LowerChar(ch) ==
  CASE ch = "A" -> "a" [] ch = "B" -> "b" [] ch = "C" -> "c"
    [] ch = "D" -> "d" [] ch = "E" -> "e" [] ch = "F" -> "f"
    [] OTHER -> ch

ToLowerCase(s) == [i \in DOMAIN s |-> LowerChar(s[i])]

\* The spellings of the two wallets a user can type or paste.
Wallets == {AddrA, AddrB}
AddressInputs == Wallets \cup {ToLowerCase(w) : w \in Wallets}

Clients == {1, 2}
\* The wallet each browser session is connected with.
WalletOf(c) == IF c = 1 THEN AddrA ELSE AddrB
\* The scenario: session 1 asks for money, session 2 pays and sends money.
Requesters == {1}
Payers == {2}
\* The modals are opened from a contact: they pass on the address stored with it.
ModalContacts(c) == {ToLowerCase(w) : w \in Wallets \ {WalletOf(c)}}

VARIABLES
  profiles,              \* table profiles: set of [id, wallet_address]
  requests,              \* table payment_requests: sequence of rows, id = index
  contacts,              \* table contacts: set of [id, owner_id, contact_wallet_address]
  authUid,               \* per client: auth.uid() of the supabase session (0: none)
  nextUid,
  currentWalletAddress,  \* per client
  paymentRequests,       \* per client: incoming list (local copies)
  sentRequests,          \* per client: sent list (local copies)
  paymentRequestsError,  \* per client
  loads,                 \* per client: the loadPaymentRequests calls in flight
  cache,                 \* per client: localStorage, per lowercased wallet
  payingRequestId,       \* per client
  payingRequestIdRef,    \* per client
  isSending,             \* per client: useWriteContracts isPending
  callsStatus,           \* per client: useCallsStatus status
  txHash,                \* per client: receipts[0].transactionHash (0: none)
  nextTx,
  pendingTransfer,       \* per client
  pendingTransferRef,    \* per client
  isRecordingTransferRef,\* per client
  inflight,              \* bag of remote calls issued and not yet answered
  updateCalls,           \* bag of every status update a client has issued
  insertCalls,           \* set of every insert a client has issued
  form,                  \* per client: the MultiRecipientForm shown (or closed)
  newContactAddress,     \* per client: address field of the add-contact form
  addContactError,       \* per client
  contactsList,          \* per client: useContacts contacts
  contactsError,         \* per client: useContacts contactsError
  contactLoads,          \* per client: the loadContacts calls in flight
  contactsCache,         \* per client: localStorage, per lowercased wallet
  isRefreshing,          \* per client: usePaymentRequests isRefreshing
  consoleErrors,         \* per client: what console.error has written
  modalAmount,           \* per client: RequestMoneyModal's amount field, as typed
  modalError,            \* per client: RequestMoneyModal's error line
  calls,                 \* per client: what the latest writeContracts call was made with
  receipts               \* receipts[h]: the call whose transaction got the hash h

dbVars == <<profiles, requests, contacts, nextUid>>
authVars == <<authUid, currentWalletAddress>>
listVars == <<paymentRequests, sentRequests, paymentRequestsError, loads, cache>>
payVars == <<payingRequestId, payingRequestIdRef, isSending, callsStatus, txHash, nextTx>>
transferVars == <<pendingTransfer, pendingTransferRef, isRecordingTransferRef>>
netVars == <<inflight, updateCalls, insertCalls>>
formVars == <<form, newContactAddress, addContactError>>
contactVars == <<contactsList, contactsError, contactLoads, contactsCache>>
modalVars == <<modalAmount, modalError>>
hookVars == <<contactVars, isRefreshing, consoleErrors, modalVars>>
callVars == <<calls, receipts>>
vars == <<dbVars, authVars, listVars, payVars, transferVars, netVars, formVars, hookVars, callVars>>

(***************************************************************************)
(* The hosted tables                                                       *)
(***************************************************************************)
Statuses == {"pending", "paid", "cancelled", "rejected", "expired"}
NoProfile == 0

\* getProfileIdByWallet: the id of the profile stored under the lowercased address.
GetProfileIdByWallet(walletAddress) ==
  LET hit == {p \in profiles : p.wallet_address = ToLowerCase(walletAddress)}
  IN  IF hit = {} THEN NoProfile ELSE (CHOOSE p \in hit : TRUE).id

\* The wallet of a profile (the profiles!requester_id(wallet_address) join).
ProfileWallet(id) ==
  LET hit == {p \in profiles : p.id = id}
  IN  IF hit = {} THEN NoAddress ELSE (CHOOSE p \in hit : TRUE).wallet_address

\* is_current_user_wallet(addr) with auth.uid() = uid.
IsCurrentUserWallet(uid, addr) ==
  \E p \in profiles : p.id = uid /\ p.wallet_address = addr

\* Policies payment_requests_select/update_requester_or_payer.
RequesterOrPayer(uid, row) ==
  uid = row.requester_id \/ IsCurrentUserWallet(uid, row.payer_wallet_address)

\* What a select returns for one row: the row, its id and the joined profile.
LocalRow(id) ==
  [id |-> id,
   requester_id |-> requests[id].requester_id,
   type |-> requests[id].type,
   payer_wallet_address |-> requests[id].payer_wallet_address,
   amount |-> requests[id].amount,
   status |-> requests[id].status,
   tx_hash |-> requests[id].tx_hash,
   paid_at |-> requests[id].paid_at,
   profiles |-> ProfileWallet(requests[id].requester_id)]

\* order("created_at", {ascending: false}): ids are handed out in creation order.
RECURSIVE RowsDesc(_, _)
RowsDesc(n, ids) ==
  IF n = 0 THEN <<>>
  ELSE (IF n \in ids THEN <<LocalRow(n)>> ELSE <<>>) \o RowsDesc(n - 1, ids)

GetIncomingPaymentRequests(uid, payerWalletAddress) ==
  RowsDesc(Len(requests),
           {i \in 1..Len(requests) :
              /\ requests[i].payer_wallet_address = ToLowerCase(payerWalletAddress)
              /\ requests[i].type = "request"
              /\ RequesterOrPayer(uid, requests[i])})

GetSentPaymentRequests(uid, requesterId) ==
  RowsDesc(Len(requests),
           {i \in 1..Len(requests) :
              /\ requests[i].requester_id = requesterId
              /\ requests[i].type = "request"
              /\ RequesterOrPayer(uid, requests[i])})

\* The row createPaymentRequest sends: status and type are left to the column defaults.
\* An insert that stores the payer address as it was typed.
PaymentRequestInsertAsTyped(requesterId, payerWalletAddress, amount) ==
  [requester_id |-> requesterId, type |-> "request",
   payer_wallet_address |-> payerWalletAddress, amount |-> amount,
   status |-> "pending", tx_hash |-> 0, paid_at |-> FALSE]

PaymentRequestInsert(requesterId, payerWalletAddress, amount) ==
  [requester_id |-> requesterId,
   type |-> "request",
   payer_wallet_address |-> ToLowerCase(payerWalletAddress),
   amount |-> amount,
   status |-> "pending",
   tx_hash |-> 0,
   paid_at |-> FALSE]

\* The row createDirectTransfer sends.
\* A transfer stored like a request: pending, without hash and payment time.
DirectTransferInsertUnpaid(senderId, recipientWalletAddress, amount, hash) ==
  [requester_id |-> senderId, type |-> "transfer",
   payer_wallet_address |-> ToLowerCase(recipientWalletAddress), amount |-> amount,
   status |-> "pending", tx_hash |-> 0, paid_at |-> FALSE]

DirectTransferInsert(senderId, recipientWalletAddress, amount, hash) ==
  [requester_id |-> senderId,
   type |-> "transfer",
   payer_wallet_address |-> ToLowerCase(recipientWalletAddress),
   amount |-> amount,
   status |-> "paid",
   tx_hash |-> hash,
   paid_at |-> TRUE]

\* The table's checks and its insert policy: amount > 0, lowercase payer,
\* auth.uid() = requester_id.
InsertAccepted(uid, row) ==
  /\ row.amount > 0
  /\ row.payer_wallet_address = ToLowerCase(row.payer_wallet_address)
  /\ uid = row.requester_id

\* updatePaymentRequestStatus: the columns the update sets.
UpdatedRow(row, status, hash) ==
  [row EXCEPT !.status = status,
              !.tx_hash = IF status = "paid" /\ hash # 0 THEN hash ELSE @,
              !.paid_at = IF status = "paid" /\ hash # 0 THEN TRUE ELSE @]

\* update ... eq("id", requestId) under the update policy: no row, no change.
UpdateAccepted(uid, requestId) ==
  /\ requestId \in 1..Len(requests)
  /\ RequesterOrPayer(uid, requests[requestId])

(***************************************************************************)
(* Amounts.  A form amount is a rational number of USDC; the client turns  *)
(* it into integer micro-units with Math.floor(amount * 1e6).              *)
(***************************************************************************)
Rat(n, d) == [n |-> n, d |-> d]
RatAdd(a, b) == Rat(a.n * b.d + b.n * a.d, a.d * b.d)
RatMul(a, b) == Rat(a.n * b.n, a.d * b.d)
RatDivInt(a, k) == Rat(a.n, a.d * k)
RatLess(a, b) == a.n * b.d < b.n * a.d
RatAbsDiff(a, b) ==
  IF RatLess(a, b) THEN Rat(b.n * a.d - a.n * b.d, a.d * b.d)
  ELSE Rat(a.n * b.d - b.n * a.d, a.d * b.d)
Zero == Rat(0, 1)
Cent == Rat(1, 100)

\* Math.floor(amount * 100): cents in place of micro-units.
MicroUnitsAsCents(a) == (a.n * 100) \div a.d

\* Math.floor(amount * 1e6)
\* (the whole part and the rest are scaled apart, to keep the products small)
MicroUnits(a) ==
  (a.n \div a.d) * MICRO
    + (IF MICRO % a.d = 0 THEN (a.n % a.d) * (MICRO \div a.d)
       ELSE ((a.n % a.d) * MICRO) \div a.d)

\* An amount that passed validateUSDCAmount in a modal: 10 USDC.
ModalAmount == Rat(10, 1)

(***************************************************************************)
(* validateUSDCAmount                                                      *)
(*                                                                         *)
(* An amount field holds a string, modelled as a sequence of characters.   *)
(* The alphabet has blanks, digits, the sign, the decimal point and a      *)
(* letter; it has no "e", "E" or "I", so exponents and "Infinity", which   *)
(* parseFloat also reads, do not arise.                                    *)
(***************************************************************************)
AmountChars == {" ", "-", ".", "0", "1", "5", "a"}
AmountStrings == UNION {[1..n -> AmountChars] : n \in 0..MaxAmountLen}

DigitChars == <<"0", "1", "2", "3", "4", "5", "6", "7", "8", "9">>
IsDigit(ch) == \E i \in DOMAIN DigitChars : DigitChars[i] = ch
DigitValue(ch) == (CHOOSE i \in DOMAIN DigitChars : DigitChars[i] = ch) - 1

\* String.prototype.trim: the string without its leading and trailing blanks.
RECURSIVE TrimStart(_)
TrimStart(s) == IF s # <<>> /\ s[1] = " " THEN TrimStart(Tail(s)) ELSE s

RECURSIVE TrimEnd(_)
TrimEnd(s) ==
  IF s # <<>> /\ s[Len(s)] = " " THEN TrimEnd(SubSeq(s, 1, Len(s) - 1)) ELSE s

Trim(s) == TrimEnd(TrimStart(s))

\* The number of digits a string starts with.
DigitsPrefix(s) ==
  CHOOSE k \in 0..Len(s) :
    /\ \A i \in 1..k : IsDigit(s[i])
    /\ k = Len(s) \/ ~IsDigit(s[k + 1])

RECURSIVE DigitsValue(_)
DigitsValue(s) ==
  IF s = <<>> THEN 0
  ELSE DigitsValue(SubSeq(s, 1, Len(s) - 1)) * 10 + DigitValue(s[Len(s)])

RECURSIVE Pow10(_)
Pow10(n) == IF n = 0 THEN 1 ELSE 10 * Pow10(n - 1)

\* parseFloat: reads the longest prefix that is a decimal literal (a sign, digits, a
\* point, digits) and ignores whatever follows it; NaN when no digit was read.
\* `read` is the number of characters of the prefix.
ParseFloat(string) ==
  LET signed == string # <<>> /\ string[1] \in {"-", "+"}
      body == IF signed THEN Tail(string) ELSE string
      whole == DigitsPrefix(body)
      rest == SubSeq(body, whole + 1, Len(body))
      point == rest # <<>> /\ rest[1] = "."
      fraction == IF point THEN DigitsPrefix(Tail(rest)) ELSE 0
      magnitude == DigitsValue(SubSeq(body, 1, whole) \o SubSeq(rest, 2, fraction + 1))
  IN  IF whole + fraction = 0
      THEN [isNaN |-> TRUE, n |-> 0, d |-> 1, read |-> 0]
      ELSE [isNaN |-> FALSE,
            n |-> IF signed /\ string[1] = "-" THEN 0 - magnitude ELSE magnitude,
            d |-> Pow10(fraction),
            read |-> (IF signed THEN 1 ELSE 0) + whole
                       + (IF point THEN 1 + fraction ELSE 0)]

\* The default bounds of validateUSDCAmount.
MinAmount == Cent
MaxAmount == Rat(10000, 1)

\* minAmount.toFixed(2) and maxAmount.toLocaleString() of the default bounds give
\* "0.01" and "10,000".
MinimumError == "Minimum amount is $0.01 USDC"
MaximumError == "Maximum amount is $10,000 USDC"

\* validateUSDCAmount without the lower bound.
ValidateUSDCAmountNoMinimum(amountStr) ==
  LET trimmed == Trim(amountStr)
      amount == ParseFloat(trimmed)
      Invalid(error) == [isValid |-> FALSE, error |-> error, amount |-> Zero]
  IN  IF trimmed = <<>> THEN Invalid("Please enter an amount")
      ELSE IF amount.isNaN THEN Invalid(MinimumError)
      ELSE IF RatLess(MaxAmount, amount) THEN Invalid(MaximumError)
      ELSE [isValid |-> TRUE, error |-> "none", amount |-> Rat(amount.n, amount.d)]

ValidateUSDCAmount(amountStr) ==
  LET trimmed == Trim(amountStr)
      amount == ParseFloat(trimmed)
      Invalid(error) == [isValid |-> FALSE, error |-> error, amount |-> Zero]
  IN  IF trimmed = <<>> THEN Invalid("Please enter an amount")
      ELSE IF amount.isNaN \/ RatLess(amount, MinAmount) THEN Invalid(MinimumError)
      ELSE IF RatLess(MaxAmount, amount) THEN Invalid(MaximumError)
      ELSE [isValid |-> TRUE, error |-> "none", amount |-> Rat(amount.n, amount.d)]

(***************************************************************************)
(* Remote calls in flight                                                  *)
(***************************************************************************)
NoTransfer == [toAddress |-> NoAddress, amount |-> 0]

\* The variables of a writeContracts call: the transfer(to, amount) of its contract,
\* and the request it pays (0: none, the call sends money outside a request).
ContractCall(requestId, toAddress, amount) ==
  [requestId |-> requestId, toAddress |-> toAddress, amount |-> amount]
NoCall == ContractCall(0, NoAddress, 0)

StatusUpdate(c, from, requestId, status, hash, wallet) ==
  [kind |-> "update", from |-> from, client |-> c, requestId |-> requestId,
   status |-> status, txHash |-> hash, by |-> ToLowerCase(wallet),
   toAddress |-> NoAddress, amount |-> 0]

TransferRecord(c, transfer, hash, wallet) ==
  [kind |-> "transfer", from |-> "recordTransfer", client |-> c, requestId |-> 0,
   status |-> "paid", txHash |-> hash, by |-> wallet,
   toAddress |-> transfer.toAddress, amount |-> transfer.amount]

InsertCall(table, address, amount) ==
  [table |-> table, address |-> address, amount |-> amount]

(***************************************************************************)
(* app/page.tsx: the two effects that watch the wallet SDK's status        *)
(***************************************************************************)
\* The confirmation effect: the status update it issues, if any.
ConfirmationEffect(c, isConfirmed, hash, ref, state, wallet) ==
  LET requestId == IF ref # 0 THEN ref ELSE state
  IN  IF isConfirmed /\ hash # 0 /\ requestId # 0
      THEN {StatusUpdate(c, "effect", requestId, "paid", hash, wallet)}
      ELSE {}

\* The recordTransfer effect: the recording it starts, if any.
RecordTransferEffect(c, isConfirmed, hash, ref, state, wallet, isRecording) ==
  LET transfer == IF ref # NoTransfer THEN ref ELSE state
  IN  IF isConfirmed /\ hash # 0 /\ transfer # NoTransfer /\ wallet # NoAddress
         /\ ~isRecording
      THEN {TransferRecord(c, transfer, hash, wallet)}
      ELSE {}

\* The effects of client c, run against the state the step leaves behind.
\* base, recording and wallet are inflight, isRecordingTransferRef[c] and
\* currentWalletAddress[c] as the step's own code leaves them; every variable the effects read is set by the step before.
RunEffects(c, base, recording, wallet, confirmationRuns, transferRuns) ==
  LET paid == IF confirmationRuns
              THEN ConfirmationEffect(c, callsStatus'[c] = "success", txHash'[c],
                                      payingRequestIdRef'[c], payingRequestId'[c], wallet)
              ELSE {}
      rec  == IF transferRuns
              THEN RecordTransferEffect(c, callsStatus'[c] = "success", txHash'[c],
                                        pendingTransferRef'[c], pendingTransfer'[c],
                                        wallet, recording)
              ELSE {}
  IN  /\ BagCardinality(updateCalls) + Cardinality(paid) <= MaxUpdateCalls
      /\ inflight' = base (+) SetToBag(paid \cup rec)
      /\ updateCalls' = updateCalls (+) SetToBag(paid)
      /\ isRecordingTransferRef' =
           [isRecordingTransferRef EXCEPT ![c] = IF rec # {} THEN TRUE ELSE recording]

(***************************************************************************)
(* Sign-in (lib/auth/useCDPAuth.ts): signInAnonymously, then upsertProfile *)
(***************************************************************************)
\* new Date(): the clock advances with every sign-in.
Now == nextUid

\* upsertProfile: insert; on a duplicate (23505: the id or the wallet_address is
\* taken) update last_seen_at where id = userId, which changes the row of that id
\* if there is one and no row otherwise.
UpsertProfile(userId, walletAddr) ==
  LET normalizedWallet == ToLowerCase(walletAddr)
      duplicate == \E p \in profiles :
                     p.id = userId \/ p.wallet_address = normalizedWallet
  IN  IF duplicate
      THEN {IF p.id = userId THEN [p EXCEPT !.last_seen_at = Now] ELSE p : p \in profiles}
      ELSE profiles \cup {[id |-> userId, wallet_address |-> normalizedWallet,
                           last_seen_at |-> Now]}

SignIn(c) ==
  /\ authUid[c] = 0
  /\ currentWalletAddress[c] # NoAddress
  /\ authUid' = [authUid EXCEPT ![c] = nextUid]
  /\ nextUid' = nextUid + 1
  /\ profiles' = UpsertProfile(nextUid, currentWalletAddress[c])
  /\ insertCalls' = insertCalls \cup
       {InsertCall("profiles", ToLowerCase(currentWalletAddress[c]), 0)}
  /\ UNCHANGED <<requests, contacts, currentWalletAddress, listVars,
                 payVars, transferVars, inflight, updateCalls, formVars, hookVars, callVars>>

Authenticated(c) == authUid[c] # 0 /\ currentWalletAddress[c] # NoAddress

(***************************************************************************)
(* components/RequestsTab.tsx: usePaymentRequests                           *)
(***************************************************************************)
NoCache == [present |-> FALSE, incoming |-> <<>>, sent |-> <<>>]

\* limitCacheSize: items.slice(0, MAX_CACHED_ITEMS)
LimitCacheSize(items) ==
  IF Len(items) <= MAX_CACHED_ITEMS THEN items ELSE SubSeq(items, 1, MAX_CACHED_ITEMS)

\* setCachedRequests: the entry stored under the lowercased wallet.
SetCachedRequests(store, walletAddress, incoming, sent) ==
  [store EXCEPT ![ToLowerCase(walletAddress)] =
     [present |-> TRUE, incoming |-> LimitCacheSize(incoming),
      sent |-> LimitCacheSize(sent)]]

\* A sequence without its i-th element.
RemoveAt(seq, i) == SubSeq(seq, 1, i - 1) \o SubSeq(seq, i + 1, Len(seq))

\* A loadPaymentRequests call at its first await, for the wallet it closed over.
NewLoad(walletAddress) ==
  [pc |-> "incoming", wallet |-> walletAddress, newIncoming |-> <<>>,
   incomingFailed |-> FALSE, showRefreshIndicator |-> FALSE]

\* The finally block of loadPaymentRequests.
Finally(c, load) ==
  isRefreshing' = [isRefreshing EXCEPT ![c] = IF load.showRefreshIndicator THEN FALSE ELSE @]

\* loadPaymentRequests up to its first await (mount, the 30 s timer, a reload):
\* the error is cleared.
StartLoad(c) ==
  /\ Authenticated(c)
  /\ Len(loads[c]) < MaxLoads
  /\ paymentRequestsError' = [paymentRequestsError EXCEPT ![c] = "none"]
  /\ loads' = [loads EXCEPT ![c] = Append(@, NewLoad(currentWalletAddress[c]))]
  /\ UNCHANGED <<dbVars, authVars, paymentRequests, sentRequests, cache, payVars,
                 transferVars, netVars, formVars, hookVars, callVars>>

\* getIncomingPaymentRequests answers.
LoadIncoming(c, i) ==
  /\ i \in 1..Len(loads[c])
  /\ loads[c][i].pc = "incoming"
  /\ LET newIncoming == GetIncomingPaymentRequests(authUid[c], loads[c][i].wallet)
     IN  /\ paymentRequests' = [paymentRequests EXCEPT ![c] = newIncoming]
         /\ loads' = [loads EXCEPT ![c][i].pc = "sent",
                                   ![c][i].newIncoming = newIncoming]
  /\ UNCHANGED <<dbVars, authVars, sentRequests, paymentRequestsError, cache, payVars,
                 transferVars, netVars, formVars, hookVars, callVars>>

\* getProfileIdByWallet and getSentPaymentRequests answer; the cache is written.
LoadSent(c, i) ==
  /\ i \in 1..Len(loads[c])
  /\ loads[c][i].pc = "sent"
  /\ LET profileId == GetProfileIdByWallet(loads[c][i].wallet)
         newSent == IF profileId = NoProfile THEN <<>>
                    ELSE GetSentPaymentRequests(authUid[c], profileId)
     IN  /\ sentRequests' = [sentRequests EXCEPT ![c] =
                               IF profileId = NoProfile THEN @ ELSE newSent]
         /\ cache' = [cache EXCEPT ![c] =
              SetCachedRequests(@, loads[c][i].wallet, loads[c][i].newIncoming,
                                newSent)]
  /\ loads' = [loads EXCEPT ![c] = RemoveAt(@, i)]
  /\ Finally(c, loads[c][i])
  /\ UNCHANGED <<dbVars, authVars, paymentRequests, paymentRequestsError, payVars,
                 transferVars, netVars, formVars, contactVars, consoleErrors, modalVars,
                 callVars>>

\* The message of a remote call that failed (error.message of the client library).
RemoteError == "Failed to fetch"
SentFailed == "Failed to load sent requests"

\* prev ? `${prev}; Failed to load sent requests` : "Failed to load sent requests"
SentFailureError(prev) ==
  CASE prev = "none" -> SentFailed
    [] prev = RemoteError -> "Failed to fetch; Failed to load sent requests"
    [] prev = SentFailed -> "Failed to load sent requests; Failed to load sent requests"
    [] prev = "You can only cancel requests you created" ->
         "You can only cancel requests you created; Failed to load sent requests"
    [] prev = "You can only reject requests sent to you" ->
         "You can only reject requests sent to you; Failed to load sent requests"

\* The errors the model appends the sent failure to.
Appendable ==
  {"none", RemoteError, SentFailed, "You can only cancel requests you created",
   "You can only reject requests sent to you"}

\* An incoming failure after which the same query is issued again.
LoadIncomingFailsAndRetries(c, i) ==
  /\ i \in 1..Len(loads[c])
  /\ loads[c][i].pc = "incoming"
  /\ paymentRequestsError' = [paymentRequestsError EXCEPT ![c] = RemoteError]
  /\ loads' = [loads EXCEPT ![c][i].incomingFailed = TRUE]
  /\ UNCHANGED <<dbVars, authVars, paymentRequests, sentRequests, cache, payVars,
                 transferVars, netVars, formVars, hookVars, callVars>>

\* getIncomingPaymentRequests answers with an error.
LoadIncomingFails(c, i) ==
  /\ i \in 1..Len(loads[c])
  /\ loads[c][i].pc = "incoming"
  /\ paymentRequestsError' = [paymentRequestsError EXCEPT ![c] = RemoteError]
  /\ loads' = [loads EXCEPT ![c][i].pc = "sent", ![c][i].incomingFailed = TRUE]
  /\ UNCHANGED <<dbVars, authVars, paymentRequests, sentRequests, cache, payVars,
                 transferVars, netVars, formVars, hookVars, callVars>>

\* getProfileIdByWallet answers with an error: console.error, then the cache
\* is written.
LoadProfileFails(c, i) ==
  /\ i \in 1..Len(loads[c])
  /\ loads[c][i].pc = "sent"
  /\ cache' = [cache EXCEPT ![c] =
       SetCachedRequests(@, loads[c][i].wallet, loads[c][i].newIncoming, <<>>)]
  /\ loads' = [loads EXCEPT ![c] = RemoveAt(@, i)]
  /\ Finally(c, loads[c][i])
  /\ consoleErrors' = [consoleErrors EXCEPT ![c] = @ \cup {"Failed to load profile:"}]
  /\ UNCHANGED <<dbVars, authVars, paymentRequests, sentRequests, paymentRequestsError,
                 payVars, transferVars, netVars, formVars, contactVars, modalVars,
                 callVars>>

\* A sent failure that takes the incoming list off the screen.
LoadSentFailsMasksIncoming(c, i) ==
  /\ i \in 1..Len(loads[c])
  /\ loads[c][i].pc = "sent"
  /\ GetProfileIdByWallet(loads[c][i].wallet) # NoProfile
  /\ paymentRequestsError[c] \in Appendable
  /\ paymentRequestsError' = [paymentRequestsError EXCEPT ![c] = SentFailed]
  /\ paymentRequests' = [paymentRequests EXCEPT ![c] = <<>>]
  /\ cache' = [cache EXCEPT ![c] =
       SetCachedRequests(@, loads[c][i].wallet, loads[c][i].newIncoming, <<>>)]
  /\ loads' = [loads EXCEPT ![c] = RemoveAt(@, i)]
  /\ Finally(c, loads[c][i])
  /\ UNCHANGED <<dbVars, authVars, sentRequests, payVars,
                 transferVars, netVars, formVars, contactVars, consoleErrors, modalVars,
                 callVars>>

\* getProfileIdByWallet finds the profile and getSentPaymentRequests answers with
\* an error; the cache is written.
LoadSentFails(c, i) ==
  /\ i \in 1..Len(loads[c])
  /\ loads[c][i].pc = "sent"
  /\ GetProfileIdByWallet(loads[c][i].wallet) # NoProfile
  /\ paymentRequestsError[c] \in Appendable
  /\ paymentRequestsError' =
       [paymentRequestsError EXCEPT ![c] = SentFailureError(@)]
  /\ cache' = [cache EXCEPT ![c] =
       SetCachedRequests(@, loads[c][i].wallet, loads[c][i].newIncoming, <<>>)]
  /\ loads' = [loads EXCEPT ![c] = RemoveAt(@, i)]
  /\ Finally(c, loads[c][i])
  /\ UNCHANGED <<dbVars, authVars, paymentRequests, sentRequests, payVars,
                 transferVars, netVars, formVars, contactVars, consoleErrors, modalVars,
                 callVars>>

\* The refresh button: loadPaymentRequests(true), disabled while refreshing.
RefreshButton(c) ==
  /\ Authenticated(c)
  /\ ~isRefreshing[c]
  /\ Len(loads[c]) < MaxLoads
  /\ isRefreshing' = [isRefreshing EXCEPT ![c] = TRUE]
  /\ paymentRequestsError' = [paymentRequestsError EXCEPT ![c] = "none"]
  /\ loads' = [loads EXCEPT ![c] =
       Append(@, [NewLoad(currentWalletAddress[c]) EXCEPT !.showRefreshIndicator = TRUE])]
  /\ UNCHANGED <<dbVars, authVars, paymentRequests, sentRequests, cache, payVars,
                 transferVars, netVars, formVars, contactVars, consoleErrors, modalVars,
                 callVars>>

(***************************************************************************)
(* useContacts: the contact list of a session and its cache                *)
(***************************************************************************)
RECURSIVE ContactsDesc(_)
\* The rows of a set as a list, the highest id first (the id stands in for
\* created_at of .order("created_at", { ascending: false })).
ContactsDesc(rows) ==
  IF rows = {} THEN <<>>
  ELSE LET first == CHOOSE x \in rows : \A y \in rows : y.id <= x.id
       IN  <<first>> \o ContactsDesc(rows \ {first})

\* getContactsByOwnerId under policy contacts_select_own.
GetContactsByOwnerId(uid, ownerId) ==
  ContactsDesc({x \in contacts : x.owner_id = ownerId /\ x.owner_id = uid})

\* localStorage.setItem of the contacts key: JSON.stringify(newContacts).
SetCachedContacts(store, walletAddress, newContacts) ==
  [store EXCEPT ![ToLowerCase(walletAddress)] = [present |-> TRUE, items |-> newContacts]]

\* loadContacts(true) up to its first await (the mount and wallet effect, a tab
\* refresh, an opened form, the reload after a contact was added or deleted).
StartContactsLoad(c) ==
  /\ currentWalletAddress[c] # NoAddress
  /\ Len(contactLoads[c]) < MaxLoads
  /\ contactsError' = [contactsError EXCEPT ![c] = "none"]
  /\ contactLoads' = [contactLoads EXCEPT ![c] = Append(@, currentWalletAddress[c])]
  /\ UNCHANGED <<dbVars, authVars, listVars, payVars, transferVars, netVars, formVars,
                 contactsList, contactsCache, isRefreshing, consoleErrors, modalVars,
                 callVars>>

\* getProfileIdByWallet and getContactsByOwnerId answer: without a profile the
\* list is emptied; with one the list is replaced and written to the cache.
ContactsLoaded(c, i) ==
  /\ i \in 1..Len(contactLoads[c])
  /\ LET walletAddress == contactLoads[c][i]
         profileId == GetProfileIdByWallet(walletAddress)
         newContacts == GetContactsByOwnerId(authUid[c], profileId)
     IN  IF profileId = NoProfile
         THEN /\ contactsList' = [contactsList EXCEPT ![c] = <<>>]
              /\ UNCHANGED contactsCache
         ELSE /\ contactsList' = [contactsList EXCEPT ![c] = newContacts]
              /\ contactsCache' = [contactsCache EXCEPT ![c] =
                   SetCachedContacts(@, walletAddress, newContacts)]
  /\ contactLoads' = [contactLoads EXCEPT ![c] = RemoveAt(@, i)]
  /\ UNCHANGED <<dbVars, authVars, listVars, payVars, transferVars, netVars, formVars,
                 contactsError, isRefreshing, consoleErrors, modalVars,
                 callVars>>

\* getProfileIdByWallet answers with an error (data is null): setContacts([]).
ContactsProfileFails(c, i) ==
  /\ i \in 1..Len(contactLoads[c])
  /\ contactsList' = [contactsList EXCEPT ![c] = <<>>]
  /\ contactLoads' = [contactLoads EXCEPT ![c] = RemoveAt(@, i)]
  /\ UNCHANGED <<dbVars, authVars, listVars, payVars, transferVars, netVars, formVars,
                 contactsError, contactsCache, isRefreshing, consoleErrors, modalVars,
                 callVars>>

\* getContactsByOwnerId answers with an error, or a call throws:
\* setContactsError, setContacts([]).
ContactsQueryFails(c, i) ==
  /\ i \in 1..Len(contactLoads[c])
  /\ contactsError' = [contactsError EXCEPT ![c] = RemoteError]
  /\ contactsList' = [contactsList EXCEPT ![c] = <<>>]
  /\ contactLoads' = [contactLoads EXCEPT ![c] = RemoveAt(@, i)]
  /\ UNCHANGED <<dbVars, authVars, listVars, payVars, transferVars, netVars, formVars,
                 contactsCache, isRefreshing, consoleErrors, modalVars,
                 callVars>>

(***************************************************************************)
(* app/page.tsx: createRequestFromModal                                    *)
(***************************************************************************)
CreateRequest(c, address, amount) ==
  /\ Authenticated(c)
  /\ Len(requests) < MaxRequests
  /\ ~RatLess(Rat(MaxUSDC, 1), amount)
  /\ LET profileId == GetProfileIdByWallet(currentWalletAddress[c])
         row == PaymentRequestInsert(profileId, address, MicroUnits(amount))
     IN  /\ profileId # NoProfile
         /\ insertCalls' = insertCalls \cup
              {InsertCall("payment_requests", row.payer_wallet_address, row.amount)}
         /\ requests' = IF InsertAccepted(authUid[c], row)
                        THEN Append(requests, row) ELSE requests
  /\ UNCHANGED <<profiles, contacts, nextUid, authVars, listVars,
                 payVars, transferVars, inflight, updateCalls, formVars,
                 contactVars, isRefreshing, consoleErrors,
                 callVars>>

\* createRequestFromModal called with an amount the modal has accepted; the modal's
\* own fields are left as they are.
CreateRequestFromModal(c, address, amount) ==
  /\ CreateRequest(c, address, amount)
  /\ UNCHANGED modalVars

(***************************************************************************)
(* components/RequestsTab.tsx: cancelRequest                               *)
(***************************************************************************)
\* [...paymentRequests, ...sentRequests].find(r => r.id === requestId)
RECURSIVE FindById(_, _)
FindById(rows, requestId) ==
  IF rows = <<>> THEN <<>>
  ELSE IF Head(rows).id = requestId THEN <<Head(rows)>>
  ELSE FindById(Tail(rows), requestId)

InList(rows, requestId) == \E k \in 1..Len(rows) : rows[k].id = requestId

\* A reject guard that lets every wallet through.
RejectRefusedNever(request, walletAddress) == FALSE

\* action === "reject" && request.payer_wallet_address !== walletLower
RejectRefused(request, walletAddress) ==
  request.payer_wallet_address # ToLowerCase(walletAddress)

\* action === "cancel" && !sentRequests.some(r => r.id === requestId)
CancelRefused(sent, requestId) == ~InList(sent, requestId)

\* A cancel that would put the request back to pending.
CancelStatusReopens(action) == IF action = "reject" THEN "rejected" ELSE "pending"

CancelStatus(action) == IF action = "reject" THEN "rejected" ELSE "cancelled"

\* cancelRequest up to its await: the guards, then the update is sent.
CancelRequest(c, requestId, action) ==
  /\ LET found == FindById(paymentRequests[c] \o sentRequests[c], requestId)
         refusal ==
           IF found = <<>> THEN "Request not found"
           ELSE IF action = "reject" /\ RejectRefused(found[1], currentWalletAddress[c])
           THEN "You can only reject requests sent to you"
           ELSE IF action = "cancel" /\ CancelRefused(sentRequests[c], requestId)
           THEN "You can only cancel requests you created"
           ELSE "none"
         call == StatusUpdate(c, "cancelRequest", requestId, CancelStatus(action), 0,
                              currentWalletAddress[c])
     IN  IF refusal # "none"
         THEN /\ paymentRequestsError' = [paymentRequestsError EXCEPT ![c] = refusal]
              /\ UNCHANGED <<inflight, updateCalls>>
         ELSE /\ BagCardinality(updateCalls) < MaxUpdateCalls
              /\ inflight' = inflight (+) SetToBag({call})
              /\ updateCalls' = updateCalls (+) SetToBag({call})
              /\ UNCHANGED paymentRequestsError
  /\ UNCHANGED <<dbVars, authVars, paymentRequests, sentRequests, loads, cache, payVars,
                 transferVars, insertCalls, formVars, hookVars, callVars>>

\* The "Cancel Request" button of the k-th sent request shown as pending.
CancelButton(c, k) ==
  /\ Authenticated(c)
  /\ k \in 1..Len(sentRequests[c])
  /\ sentRequests[c][k].status = "pending"
  /\ CancelRequest(c, sentRequests[c][k].id, "cancel")

\* The "Reject" button of the k-th incoming request shown as pending (canPay).
RejectButton(c, k) ==
  /\ Authenticated(c)
  /\ k \in 1..Len(paymentRequests[c])
  /\ paymentRequests[c][k].status = "pending"
  /\ ToLowerCase(currentWalletAddress[c]) = paymentRequests[c][k].payer_wallet_address
  /\ CancelRequest(c, paymentRequests[c][k].id, "reject")

\* cancelRequest called with any request id and action.
CancelRequestCall(c, requestId, action) ==
  /\ Authenticated(c)
  /\ CancelRequest(c, requestId, action)

\* The update answers (an update that matches no row is no error): the lists are
\* loaded again.
CancelCompletes(c, call) ==
  /\ BagIn(call, inflight)
  /\ call.client = c /\ call.kind = "update" /\ call.from = "cancelRequest"
  /\ Len(loads[c]) < MaxLoads
  /\ inflight' = inflight (-) SetToBag({call})
  /\ requests' = IF UpdateAccepted(authUid[c], call.requestId)
                 THEN [requests EXCEPT ![call.requestId] =
                         UpdatedRow(@, call.status, call.txHash)]
                 ELSE requests
  /\ paymentRequestsError' = [paymentRequestsError EXCEPT ![c] = "none"]
  /\ loads' = [loads EXCEPT ![c] = Append(@, NewLoad(currentWalletAddress[c]))]
  /\ UNCHANGED <<profiles, contacts, nextUid, authVars, paymentRequests,
                 sentRequests, cache, payVars, transferVars, updateCalls, insertCalls,
                 formVars, hookVars, callVars>>

(***************************************************************************)
(* app/page.tsx: paying a request, sending money, the wallet SDK           *)
(***************************************************************************)
IsConfirming(c) == callsStatus[c] = "pending"

\* writeContracts: a new mutation; the previous call id and its status are dropped.
WriteContracts(c, call) ==
  /\ isSending' = [isSending EXCEPT ![c] = TRUE]
  /\ callsStatus' = [callsStatus EXCEPT ![c] = "none"]
  /\ txHash' = [txHash EXCEPT ![c] = 0]
  /\ calls' = [calls EXCEPT ![c] = call]
  /\ UNCHANGED <<nextTx, receipts>>

\* The Pay button of the k-th incoming request, then payPaymentRequest.
PayPaymentRequest(c, k) ==
  /\ Authenticated(c)
  /\ k \in 1..Len(paymentRequests[c])
  /\ LET request == paymentRequests[c][k]
     IN  /\ request.status = "pending"
         /\ ToLowerCase(currentWalletAddress[c]) = request.payer_wallet_address
         /\ payingRequestId[c] # request.id /\ ~isSending[c] /\ ~IsConfirming(c)
         /\ request.profiles # NoAddress
         /\ payingRequestId' = [payingRequestId EXCEPT ![c] = request.id]
         /\ payingRequestIdRef' = [payingRequestIdRef EXCEPT ![c] = request.id]
         /\ WriteContracts(c, ContractCall(request.id, request.profiles, request.amount))
  /\ UNCHANGED <<pendingTransfer, pendingTransferRef>>
  /\ RunEffects(c, inflight, isRecordingTransferRef[c], currentWalletAddress[c], TRUE, TRUE)
  /\ UNCHANGED <<dbVars, authVars, listVars, insertCalls, formVars, hookVars>>

\* The Send button of SendMoneyModal, then sendDirectMoney.
SendDirectMoney(c, toAddress, amount) ==
  /\ Authenticated(c)
  /\ ~isSending[c] /\ ~IsConfirming(c)
  /\ LET transfer == [toAddress |-> toAddress, amount |-> MicroUnits(amount)]
     IN  /\ pendingTransfer' = [pendingTransfer EXCEPT ![c] = transfer]
         /\ pendingTransferRef' = [pendingTransferRef EXCEPT ![c] = transfer]
         /\ WriteContracts(c, ContractCall(0, transfer.toAddress, transfer.amount))
  /\ UNCHANGED <<payingRequestId, payingRequestIdRef>>
  /\ RunEffects(c, inflight, isRecordingTransferRef[c], currentWalletAddress[c], TRUE, TRUE)
  /\ UNCHANGED <<dbVars, authVars, listVars, insertCalls, formVars, hookVars>>

\* The user approves in the wallet: the bundle is submitted.
WalletAccepted(c) ==
  /\ isSending[c]
  /\ isSending' = [isSending EXCEPT ![c] = FALSE]
  /\ callsStatus' = [callsStatus EXCEPT ![c] = "pending"]
  /\ UNCHANGED <<dbVars, authVars, listVars, payingRequestId, payingRequestIdRef, txHash,
                 nextTx, transferVars, netVars, formVars, hookVars, callVars>>

\* The user declines in the wallet: writeContracts fails.
WalletRejected(c) ==
  /\ isSending[c]
  /\ isSending' = [isSending EXCEPT ![c] = FALSE]
  /\ UNCHANGED <<dbVars, authVars, listVars, payingRequestId, payingRequestIdRef,
                 callsStatus, txHash, nextTx, transferVars, netVars, formVars, hookVars, callVars>>

\* useCallsStatus reports success with a receipt.
WalletSuccess(c) ==
  /\ callsStatus[c] = "pending"
  /\ nextTx <= MaxTx
  /\ callsStatus' = [callsStatus EXCEPT ![c] = "success"]
  /\ txHash' = [txHash EXCEPT ![c] = nextTx]
  /\ nextTx' = nextTx + 1
  /\ receipts' = Append(receipts, calls[c])
  /\ UNCHANGED <<isSending, payingRequestId, payingRequestIdRef, pendingTransfer,
                 pendingTransferRef, calls>>
  /\ RunEffects(c, inflight, isRecordingTransferRef[c], currentWalletAddress[c], TRUE, TRUE)
  /\ UNCHANGED <<dbVars, authVars, listVars, insertCalls, formVars, hookVars>>

\* useCallsStatus reports that the bundle failed.
WalletFailure(c) ==
  /\ callsStatus[c] = "pending"
  /\ callsStatus' = [callsStatus EXCEPT ![c] = "failure"]
  /\ UNCHANGED <<dbVars, authVars, listVars, payingRequestId, payingRequestIdRef,
                 isSending, txHash, nextTx, transferVars, netVars, formVars, hookVars, callVars>>

\* React invokes the effects of the page again with nothing changed.
ReplayEffects(c) ==
  /\ Authenticated(c)
  /\ UNCHANGED <<dbVars, authVars, listVars, payVars, pendingTransfer,
                 pendingTransferRef, insertCalls, formVars, hookVars, callVars>>
  /\ RunEffects(c, inflight, isRecordingTransferRef[c], currentWalletAddress[c], TRUE, TRUE)

\* updatePaymentRequestStatus (page): the update answers, then the id is cleared.
PaidUpdateCompletes(c, call) ==
  /\ BagIn(call, inflight)
  /\ call.client = c /\ call.kind = "update" /\ call.from = "effect"
  /\ requests' = IF UpdateAccepted(authUid[c], call.requestId)
                 THEN [requests EXCEPT ![call.requestId] =
                         UpdatedRow(@, call.status, call.txHash)]
                 ELSE requests
  /\ payingRequestId' = [payingRequestId EXCEPT ![c] = 0]
  /\ payingRequestIdRef' = [payingRequestIdRef EXCEPT ![c] = 0]
  /\ UNCHANGED <<isSending, callsStatus, txHash, nextTx, pendingTransfer,
                 pendingTransferRef>>
  /\ RunEffects(c, inflight (-) SetToBag({call}), isRecordingTransferRef[c],
                currentWalletAddress[c], TRUE, FALSE)
  /\ UNCHANGED <<profiles, contacts, nextUid, authVars, listVars,
                 insertCalls, formVars, hookVars, callVars>>

\* recordTransfer after its guard: the profile lookup and createDirectTransfer
\* answer, then the pending transfer and the guard are cleared.
RecordTransferCompletes(c, call) ==
  /\ BagIn(call, inflight)
  /\ call.client = c /\ call.kind = "transfer"
  /\ LET profileId == GetProfileIdByWallet(call.by)
         row == DirectTransferInsert(profileId, call.toAddress, call.amount, call.txHash)
         stored == profileId # NoProfile /\ InsertAccepted(authUid[c], row)
     IN  /\ stored => Len(requests) < MaxRequests
         /\ requests' = IF stored THEN Append(requests, row) ELSE requests
         /\ insertCalls' = IF profileId = NoProfile THEN insertCalls
                           ELSE insertCalls \cup
                                  {InsertCall("payment_requests",
                                              row.payer_wallet_address, row.amount)}
  /\ pendingTransfer' = [pendingTransfer EXCEPT ![c] = NoTransfer]
  /\ pendingTransferRef' = [pendingTransferRef EXCEPT ![c] = NoTransfer]
  /\ UNCHANGED <<payVars>>
  /\ RunEffects(c, inflight (-) SetToBag({call}), FALSE, currentWalletAddress[c],
                FALSE, TRUE)
  /\ UNCHANGED <<profiles, contacts, nextUid, authVars, listVars, formVars, hookVars, callVars>>

(***************************************************************************)
(* components/MultiRecipientForm.tsx and the two submit handlers of        *)
(* components/RequestsTab.tsx                                              *)
(***************************************************************************)
\* What the user can enter in the form.
TotalInputs == {Rat(1, 1000), Cent, Rat(10, 1)}
PercentageInputs == {Zero, Rat(50, 1), Rat(100, 1)}
FixedInputs == {Zero, Rat(5, 1), Rat(10, 1)}

\* The form as MultiRecipientForm mounts it.
NewForm ==
  [splitMode |-> "split", customSplitType |-> "equal", totalAmount |-> Zero,
   recipients |-> <<>>]

\* /^0x[a-fA-F0-9]{40}$/ (the model's addresses carry two digits, not forty)
IsHexDigit(ch) ==
  ch \in {"0", "1", "2", "3", "4", "5", "6", "7", "8", "9",
          "a", "b", "c", "d", "e", "f", "A", "B", "C", "D", "E", "F"}
IsValidEthereumAddress(address) ==
  /\ Len(address) = 4
  /\ address[1] = "0" /\ address[2] = "x"
  /\ IsHexDigit(address[3]) /\ IsHexDigit(address[4])

\* addRecipient: an address already in the list, in any spelling, or an invalid
\* one is not added.
AddRecipient(f, address) ==
  IF \/ address = NoAddress
     \/ \E i \in 1..Len(f.recipients) :
          ToLowerCase(f.recipients[i].address) = ToLowerCase(address)
     \/ ~IsValidEthereumAddress(address)
  THEN f
  ELSE [f EXCEPT !.recipients =
          Append(@, [address |-> address, percentage |-> Zero, fixedAmount |-> Zero])]

RECURSIVE AddRecipients(_, _)
AddRecipients(f, addresses) ==
  IF addresses = <<>> THEN f
  ELSE AddRecipients(AddRecipient(f, Head(addresses)), Tail(addresses))

\* distributeEqually
DistributeEqually(f) ==
  [f EXCEPT !.recipients =
     [i \in 1..Len(@) |-> [@[i] EXCEPT !.percentage = Rat(100, Len(f.recipients))]]]

\* "Split total" / "Each pays full", then "Equal" (which also distributes
\* equally) / "By %" / "Fixed $", offered in split mode only.
SetSplit(f, splitMode, customSplitType) ==
  IF splitMode = "each" THEN [f EXCEPT !.splitMode = "each"]
  ELSE IF customSplitType = "equal"
  THEN DistributeEqually([f EXCEPT !.splitMode = "split", !.customSplitType = "equal"])
  ELSE [f EXCEPT !.splitMode = "split", !.customSplitType = customSplitType]

\* updateRecipientPercentage: Math.max(0, Math.min(100, percentage))
UpdateRecipientPercentage(f, i, percentage) ==
  [f EXCEPT !.recipients[i].percentage =
     IF RatLess(percentage, Zero) THEN Zero
     ELSE IF RatLess(Rat(100, 1), percentage) THEN Rat(100, 1)
     ELSE percentage]

\* updateRecipientFixedAmount: Math.max(0, amount)
UpdateRecipientFixedAmount(f, i, amount) ==
  [f EXCEPT !.recipients[i].fixedAmount = IF RatLess(amount, Zero) THEN Zero ELSE amount]

\* The share inputs the form shows: percentages in "By %", amounts in "Fixed $".
RECURSIVE SetShares(_, _, _)
SetShares(f, i, shares) ==
  IF i > Len(f.recipients) \/ i > Len(shares) THEN f
  ELSE SetShares(IF f.splitMode = "split" /\ f.customSplitType = "percentage"
                 THEN UpdateRecipientPercentage(f, i, shares[i].percentage)
                 ELSE IF f.splitMode = "split" /\ f.customSplitType = "fixed"
                 THEN UpdateRecipientFixedAmount(f, i, shares[i].fixedAmount)
                 ELSE f,
                 i + 1, shares)

\* A form as the user has filled it in: recipients added, the amount entered,
\* the split chosen, then the shares entered.
FilledForm(addresses, total, splitMode, customSplitType, shares) ==
  SetShares(SetSplit([AddRecipients(NewForm, addresses) EXCEPT !.totalAmount = total],
                     splitMode, customSplitType),
            1, shares)

SeqsUpTo(S, n) == UNION {[1..k -> S] : k \in 1..n}

ShareInputs ==
  {[percentage |-> p, fixedAmount |-> Zero] : p \in PercentageInputs}
    \cup {[percentage |-> Zero, fixedAmount |-> a] : a \in FixedInputs}

FilledForms ==
  {FilledForm(addresses, total, splitMode, customSplitType, shares) :
     addresses \in SeqsUpTo(AddressInputs, MaxRecipients),
     total \in TotalInputs,
     splitMode \in {"split", "each"},
     customSplitType \in {"equal", "percentage", "fixed"},
     shares \in [1..MaxRecipients -> ShareInputs]}

\* "Request Money" / "Send Money": the form is shown.
OpenForm(c, mode) ==
  /\ Authenticated(c)
  /\ form[c] = "closed"
  /\ form' = [form EXCEPT ![c] = mode]
  /\ UNCHANGED <<dbVars, authVars, listVars, payVars, transferVars, netVars,
                 newContactAddress, addContactError, hookVars, callVars>>

\* calculateAmounts
CalculateAmounts(f) ==
  IF ~RatLess(Zero, f.totalAmount) \/ f.recipients = <<>> THEN <<>>
  ELSE [i \in 1..Len(f.recipients) |->
          [address |-> f.recipients[i].address,
           amount |->
             IF f.splitMode = "each" THEN f.totalAmount
             ELSE IF f.customSplitType = "equal"
             THEN RatDivInt(f.totalAmount, Len(f.recipients))
             ELSE IF f.customSplitType = "percentage"
             THEN RatDivInt(RatMul(f.totalAmount, f.recipients[i].percentage), 100)
             ELSE f.recipients[i].fixedAmount]]

RECURSIVE SumOf(_, _)
SumOf(recipients, field) ==
  IF recipients = <<>> THEN Zero
  ELSE RatAdd(Head(recipients)[field], SumOf(Tail(recipients), field))

\* canSubmit
CanSubmit(f, isSubmitting, isConfirming) ==
  /\ Len(f.recipients) > 0
  /\ ~RatLess(f.totalAmount, Cent)
  /\ \/ f.customSplitType # "percentage"
     \/ RatLess(RatAbsDiff(SumOf(f.recipients, "percentage"), Rat(100, 1)), Cent)
  /\ \/ f.customSplitType # "fixed"
     \/ RatLess(RatAbsDiff(SumOf(f.recipients, "fixedAmount"), f.totalAmount), Cent)
  /\ ~isSubmitting
  /\ ~isConfirming

\* The inserts of the loop of handleRequestSubmit, one after the other.
RECURSIVE InsertRequests(_, _, _)
InsertRequests(table, uid, rows) ==
  IF rows = <<>> THEN table
  ELSE InsertRequests(IF InsertAccepted(uid, Head(rows))
                      THEN Append(table, Head(rows)) ELSE table,
                      uid, Tail(rows))

\* handleSubmit of the request form, then handleRequestSubmit: one insert per
\* recipient (the result of an insert is not looked at), the lists are loaded
\* again and the form is closed.
SubmitRequestForm(c, f) ==
  /\ Authenticated(c)
  /\ form[c] = "request"
  /\ CanSubmit(f, FALSE, FALSE)
  /\ LET profileId == GetProfileIdByWallet(currentWalletAddress[c])
         calculated == CalculateAmounts(f)
         rows == [i \in 1..Len(calculated) |->
                    PaymentRequestInsert(profileId, calculated[i].address,
                                         MicroUnits(calculated[i].amount))]
     IN  IF profileId = NoProfile
         THEN /\ paymentRequestsError' = [paymentRequestsError EXCEPT ![c] =
                   "Profile not found. Please sign in again."]
              /\ UNCHANGED <<requests, insertCalls, loads, form>>
         ELSE /\ Len(loads[c]) < MaxLoads
              /\ requests' = InsertRequests(requests, authUid[c], rows)
              /\ Len(requests') <= MaxRequests
              /\ insertCalls' = insertCalls \cup
                   {InsertCall("payment_requests", rows[i].payer_wallet_address,
                               rows[i].amount) : i \in 1..Len(rows)}
              /\ paymentRequestsError' = [paymentRequestsError EXCEPT ![c] = "none"]
              /\ loads' = [loads EXCEPT ![c] =
                   Append(@, NewLoad(currentWalletAddress[c]))]
              /\ form' = [form EXCEPT ![c] = "closed"]
  /\ UNCHANGED <<profiles, contacts, nextUid, authVars, paymentRequests, sentRequests,
                 cache, payVars, transferVars, inflight, updateCalls,
                 newContactAddress, addContactError, hookVars, callVars>>

\* handleSubmit of the send form, then handleSendSubmit: sendMoneyFromRequests
\* for every recipient in turn; each call overwrites the pending transfer and
\* starts a new writeContracts, so the last recipient's is the one tracked.
SubmitSendForm(c, f) ==
  /\ Authenticated(c)
  /\ form[c] = "send"
  /\ CanSubmit(f, isSending[c], IsConfirming(c))
  /\ LET calculated == CalculateAmounts(f)
         last == calculated[Len(calculated)]
         transfer == [toAddress |-> last.address, amount |-> MicroUnits(last.amount)]
     IN  /\ pendingTransfer' = [pendingTransfer EXCEPT ![c] = transfer]
         /\ pendingTransferRef' = [pendingTransferRef EXCEPT ![c] = transfer]
         /\ WriteContracts(c, ContractCall(0, transfer.toAddress, transfer.amount))
  /\ form' = [form EXCEPT ![c] = "closed"]
  /\ UNCHANGED <<payingRequestId, payingRequestIdRef>>
  /\ RunEffects(c, inflight, isRecordingTransferRef[c], currentWalletAddress[c],
                TRUE, TRUE)
  /\ UNCHANGED <<dbVars, authVars, listVars, insertCalls, newContactAddress,
                 addContactError, hookVars>>

(***************************************************************************)
(* The specification: two browser sessions, each with its own wallet       *)
(***************************************************************************)
CacheKeys == {ToLowerCase(w) : w \in Wallets}

\* No entry under the contacts key of a wallet.
NoContactsCache == [present |-> FALSE, items |-> <<>>]

\* The state after the page is first opened: open names the sessions that exist.
\* The page as it opens, with `typed` already in the amount field of the request
\* modal of the clients in `open`.
OpenedTyped(open, typed) ==
  /\ profiles = {}
  /\ requests = <<>>
  /\ contacts = {}
  /\ authUid = [c \in Clients |-> 0]
  /\ nextUid = 1
  /\ currentWalletAddress =
       [c \in Clients |-> IF c \in open THEN WalletOf(c) ELSE NoAddress]
  /\ paymentRequests = [c \in Clients |-> <<>>]
  /\ sentRequests = [c \in Clients |-> <<>>]
  /\ paymentRequestsError = [c \in Clients |-> "none"]
  /\ loads = [c \in Clients |-> <<>>]
  /\ cache = [c \in Clients |-> [w \in CacheKeys |-> NoCache]]
  /\ payingRequestId = [c \in Clients |-> 0]
  /\ payingRequestIdRef = [c \in Clients |-> 0]
  /\ isSending = [c \in Clients |-> FALSE]
  /\ callsStatus = [c \in Clients |-> "none"]
  /\ txHash = [c \in Clients |-> 0]
  /\ nextTx = 1
  /\ pendingTransfer = [c \in Clients |-> NoTransfer]
  /\ pendingTransferRef = [c \in Clients |-> NoTransfer]
  /\ isRecordingTransferRef = [c \in Clients |-> FALSE]
  /\ inflight = EmptyBag
  /\ updateCalls = EmptyBag
  /\ insertCalls = {}
  /\ form = [c \in Clients |-> "closed"]
  /\ newContactAddress = [c \in Clients |-> NoAddress]
  /\ addContactError = [c \in Clients |-> "none"]
  /\ contactsList = [c \in Clients |-> <<>>]
  /\ contactsError = [c \in Clients |-> "none"]
  /\ contactLoads = [c \in Clients |-> <<>>]
  /\ contactsCache = [c \in Clients |-> [w \in CacheKeys |-> NoContactsCache]]
  /\ isRefreshing = [c \in Clients |-> FALSE]
  /\ consoleErrors = [c \in Clients |-> {}]
  /\ modalAmount = [c \in Clients |-> IF c \in open THEN typed ELSE <<>>]
  /\ modalError = [c \in Clients |-> "none"]
  /\ calls = [c \in Clients |-> NoCall]
  /\ receipts = <<>>

Opened(open) == OpenedTyped(open, <<>>)

Init == Opened(Clients)

UpdatesInFlight == {call \in BagToSet(inflight) : call.kind = "update"}
TransfersInFlight == {call \in BagToSet(inflight) : call.kind = "transfer"}

Next ==
  \/ \E c \in Clients : SignIn(c)
  \/ \E c \in Requesters : \E address \in ModalContacts(c) :
       CreateRequestFromModal(c, address, ModalAmount)
  \/ \E c \in Clients : StartLoad(c)
  \/ \E c \in Clients, i \in 1..MaxLoads : LoadIncoming(c, i)
  \/ \E c \in Clients, i \in 1..MaxLoads : LoadSent(c, i)
  \/ \E c \in Clients, k \in 1..MaxRequests : CancelButton(c, k)
  \/ \E c \in Clients, k \in 1..MaxRequests : RejectButton(c, k)
  \/ \E c \in Clients, call \in UpdatesInFlight : CancelCompletes(c, call)
  \/ \E c \in Clients, k \in 1..MaxRequests : PayPaymentRequest(c, k)
  \/ \E c \in Clients : WalletAccepted(c)
  \/ \E c \in Clients : WalletRejected(c)
  \/ \E c \in Clients : WalletSuccess(c)
  \/ \E c \in Clients : WalletFailure(c)
  \/ \E c \in Clients : ReplayEffects(c)
  \/ \E c \in Clients, call \in UpdatesInFlight : PaidUpdateCompletes(c, call)

Spec == Init /\ [][Next]_vars

(***************************************************************************)
(* Requests and direct transfers side by side, the wallet always answering *)
(***************************************************************************)
NextTransfer ==
  \/ \E c \in Clients : SignIn(c)
  \/ \E c \in Requesters : \E address \in ModalContacts(c) :
       CreateRequestFromModal(c, address, ModalAmount)
  \/ \E c \in Clients : StartLoad(c)
  \/ \E c \in Clients, i \in 1..MaxLoads : LoadIncoming(c, i)
  \/ \E c \in Clients, i \in 1..MaxLoads : LoadSent(c, i)
  \/ \E c \in Clients, k \in 1..MaxRequests : CancelButton(c, k)
  \/ \E c \in Clients, k \in 1..MaxRequests : RejectButton(c, k)
  \/ \E c \in Clients, call \in UpdatesInFlight : CancelCompletes(c, call)
  \/ \E c \in Clients, k \in 1..MaxRequests : PayPaymentRequest(c, k)
  \/ \E c \in Payers : \E address \in ModalContacts(c) :
       SendDirectMoney(c, address, ModalAmount)
  \/ \E c \in Clients : WalletAccepted(c)
  \/ \E c \in Clients : WalletSuccess(c)
  \/ \E c \in Clients, call \in UpdatesInFlight : PaidUpdateCompletes(c, call)
  \/ \E c \in Clients, call \in TransfersInFlight : RecordTransferCompletes(c, call)

SpecTransfer == Init /\ [][NextTransfer]_vars

(***************************************************************************)
(* One session whose user changes the account in the wallet (wagmi's       *)
(* address changes; the supabase session stays the one that signed in)     *)
(***************************************************************************)
\* getCachedRequests
GetCachedRequests(store, walletAddress) == store[ToLowerCase(walletAddress)]

\* currentWalletAddress changes: usePaymentRequests hydrates from the cache of the
\* new wallet when it holds anything, then loads; useContacts shows the cached
\* contacts of the new wallet, then loads; the recordTransfer effect runs.
SwitchWallet(c, w) ==
  /\ Authenticated(c)
  /\ w # currentWalletAddress[c]
  /\ Len(loads[c]) < MaxLoads
  /\ Len(contactLoads[c]) < MaxLoads
  /\ LET cached == contactsCache[c][ToLowerCase(w)]
     IN  contactsList' = [contactsList EXCEPT ![c] =
                            IF cached.present THEN cached.items ELSE @]
  /\ contactsError' = [contactsError EXCEPT ![c] = "none"]
  /\ contactLoads' = [contactLoads EXCEPT ![c] = Append(@, w)]
  /\ currentWalletAddress' = [currentWalletAddress EXCEPT ![c] = w]
  /\ LET cached == GetCachedRequests(cache[c], w)
         hydrate == cached.incoming # <<>> \/ cached.sent # <<>>
     IN  /\ paymentRequests' = [paymentRequests EXCEPT ![c] =
                                  IF hydrate THEN cached.incoming ELSE @]
         /\ sentRequests' = [sentRequests EXCEPT ![c] =
                               IF hydrate THEN cached.sent ELSE @]
  /\ paymentRequestsError' = [paymentRequestsError EXCEPT ![c] = "none"]
  /\ loads' = [loads EXCEPT ![c] = Append(@, NewLoad(w))]
  /\ UNCHANGED <<payVars, pendingTransfer, pendingTransferRef>>
  /\ RunEffects(c, inflight, isRecordingTransferRef[c], w, FALSE, TRUE)
  /\ UNCHANGED <<dbVars, authUid, cache, insertCalls, formVars, contactsCache,
                 isRefreshing, consoleErrors, modalVars,
                 callVars>>

\* Only session 1 is open.
InitSwitch == Opened({1})

NextSwitch ==
  \/ \E c \in Clients : SignIn(c)
  \/ \E c \in Requesters : \E address \in ModalContacts(c) :
       CreateRequestFromModal(c, address, ModalAmount)
  \/ \E c \in Clients : StartLoad(c)
  \/ \E c \in Clients, i \in 1..MaxLoads : LoadIncoming(c, i)
  \/ \E c \in Clients, i \in 1..MaxLoads : LoadSent(c, i)
  \/ \E c \in Clients, k \in 1..MaxRequests : CancelButton(c, k)
  \/ \E c \in Clients, k \in 1..MaxRequests : RejectButton(c, k)
  \/ \E c \in Clients, call \in UpdatesInFlight : CancelCompletes(c, call)
  \/ \E c \in Clients, w \in Wallets : SwitchWallet(c, w)
  \/ \E c \in Clients, i \in 1..MaxLoads : ContactsLoaded(c, i)

SpecSwitch == InitSwitch /\ [][NextSwitch]_vars

(***************************************************************************)
(* Two sessions; cancelRequest is called with any request id and action    *)
(***************************************************************************)
NextHandler ==
  \/ \E c \in Clients : SignIn(c)
  \/ \E c \in Requesters : \E address \in ModalContacts(c) :
       CreateRequestFromModal(c, address, ModalAmount)
  \/ \E c \in Clients : StartLoad(c)
  \/ \E c \in Clients, i \in 1..MaxLoads : LoadIncoming(c, i)
  \/ \E c \in Clients, i \in 1..MaxLoads : LoadSent(c, i)
  \/ \E c \in Clients, requestId \in 1..MaxRequests, action \in {"cancel", "reject"} :
       CancelRequestCall(c, requestId, action)
  \/ \E c \in Clients, call \in UpdatesInFlight : CancelCompletes(c, call)

SpecHandler == Init /\ [][NextHandler]_vars

(***************************************************************************)
(* The address book (ContactsTab, createContact, table contacts)           *)
(***************************************************************************)
ContactInsert(ownerId, contactWalletAddress) ==
  [owner_id |-> ownerId, contact_wallet_address |-> ToLowerCase(contactWalletAddress)]

\* contacts_owner_contact_unique
ContactUnique(row) ==
  ~\E x \in contacts :
     /\ x.owner_id = row.owner_id
     /\ x.contact_wallet_address = row.contact_wallet_address

\* A table without the unique constraint.
ContactInsertErrorNoUnique(uid, row) ==
  IF uid # row.owner_id THEN "new row violates row-level security policy"
  ELSE IF row.contact_wallet_address # ToLowerCase(row.contact_wallet_address)
  THEN "violates check constraint contacts_wallet_lowercase"
  ELSE "none"

\* What the table answers to an insert: policy contacts_insert_own, then the
\* constraints contacts_wallet_lowercase and contacts_owner_contact_unique.
ContactInsertError(uid, row) ==
  IF uid # row.owner_id THEN "new row violates row-level security policy"
  ELSE IF row.contact_wallet_address # ToLowerCase(row.contact_wallet_address)
  THEN "violates check constraint contacts_wallet_lowercase"
  ELSE IF ~ContactUnique(row)
  THEN "duplicate key value violates unique constraint"
  ELSE "none"

\* gen_random_uuid(): an id no row has.
FreshContactId == CHOOSE id \in 1..MaxContacts : \A x \in contacts : x.id # id

\* The user types or pastes an address into the add-contact form.
TypeContactAddress(c, address) ==
  /\ Authenticated(c)
  /\ newContactAddress[c] # address
  /\ newContactAddress' = [newContactAddress EXCEPT ![c] = address]
  /\ UNCHANGED <<dbVars, authVars, listVars, payVars, transferVars, netVars, form,
                 addContactError, hookVars, callVars>>

\* addContact: the profile lookup and createContact answer.
AddContact(c) ==
  /\ Authenticated(c)
  /\ newContactAddress[c] # NoAddress
  /\ LET profileId == GetProfileIdByWallet(currentWalletAddress[c])
         row == ContactInsert(profileId, newContactAddress[c])
         error == ContactInsertError(authUid[c], row)
     IN  IF profileId = NoProfile
         THEN /\ addContactError' = [addContactError EXCEPT ![c] =
                   "Profile not found. Please sign in again."]
              /\ UNCHANGED <<contacts, newContactAddress, insertCalls>>
         ELSE /\ insertCalls' = insertCalls \cup
                   {InsertCall("contacts", row.contact_wallet_address, 0)}
              /\ addContactError' = [addContactError EXCEPT ![c] = error]
              /\ IF error = "none"
                 THEN /\ Cardinality(contacts) < MaxContacts
                      /\ contacts' = contacts \cup
                           {[id |-> FreshContactId, owner_id |-> row.owner_id,
                             contact_wallet_address |-> row.contact_wallet_address]}
                      /\ newContactAddress' = [newContactAddress EXCEPT ![c] = NoAddress]
                 ELSE UNCHANGED <<contacts, newContactAddress>>
  /\ UNCHANGED <<profiles, requests, nextUid, authVars, listVars, payVars, transferVars,
                 inflight, updateCalls, form, hookVars, callVars>>

\* handleDeleteContact for a contact the session owns (policy contacts_delete_own).
DeleteContact(c, contactId) ==
  /\ Authenticated(c)
  /\ \E x \in contacts :
       /\ x.id = contactId
       /\ x.owner_id = authUid[c]
       /\ contacts' = contacts \ {x}
  /\ UNCHANGED <<profiles, requests, nextUid, authVars, listVars, payVars, transferVars,
                 netVars, formVars, hookVars, callVars>>

NextContacts ==
  \/ \E c \in Clients : SignIn(c)
  \/ \E c \in Clients, address \in AddressInputs : TypeContactAddress(c, address)
  \/ \E c \in Clients : AddContact(c)
  \/ \E c \in Clients, contactId \in 1..MaxContacts : DeleteContact(c, contactId)

SpecContacts == Init /\ [][NextContacts]_vars

(***************************************************************************)
(* One session that asks for money through the request form                *)
(***************************************************************************)
NextForm ==
  \/ \E c \in Clients : SignIn(c)
  \/ \E c \in Clients : OpenForm(c, "request")
  \/ \E c \in Clients, f \in FilledForms : SubmitRequestForm(c, f)
  \/ \E c \in Clients : StartLoad(c)
  \/ \E c \in Clients, i \in 1..MaxLoads : LoadIncoming(c, i)
  \/ \E c \in Clients, i \in 1..MaxLoads : LoadSent(c, i)

SpecForm == InitSwitch /\ [][NextForm]_vars

(***************************************************************************)
(* One session that signs in, keeps an address book, and requests and      *)
(* sends money through the forms, every recipient for the full 10 USDC     *)
(***************************************************************************)
EachPaysFullForms ==
  {f \in FilledForms : f.splitMode = "each" /\ f.totalAmount = ModalAmount}

NextStore ==
  \/ \E c \in Clients : SignIn(c)
  \/ \E c \in Clients, address \in AddressInputs : TypeContactAddress(c, address)
  \/ \E c \in Clients : AddContact(c)
  \/ \E c \in Clients, mode \in {"request", "send"} : OpenForm(c, mode)
  \/ \E c \in Clients, f \in EachPaysFullForms : SubmitRequestForm(c, f)
  \/ \E c \in Clients, f \in EachPaysFullForms : SubmitSendForm(c, f)
  \/ \E c \in Clients : WalletAccepted(c)
  \/ \E c \in Clients : WalletSuccess(c)
  \/ \E c \in Clients, call \in TransfersInFlight : RecordTransferCompletes(c, call)

SpecStore == InitSwitch /\ [][NextStore]_vars

(***************************************************************************)
(* Two sessions whose remote calls may fail while the lists are loaded     *)
(***************************************************************************)
NextLoad ==
  \/ \E c \in Clients : SignIn(c)
  \/ \E c \in Requesters : \E address \in ModalContacts(c) :
       CreateRequestFromModal(c, address, ModalAmount)
  \/ \E c \in Clients : StartLoad(c)
  \/ \E c \in Clients : RefreshButton(c)
  \/ \E c \in Clients, i \in 1..MaxLoads : LoadIncoming(c, i)
  \/ \E c \in Clients, i \in 1..MaxLoads : LoadIncomingFails(c, i)
  \/ \E c \in Clients, i \in 1..MaxLoads : LoadSent(c, i)
  \/ \E c \in Clients, i \in 1..MaxLoads : LoadProfileFails(c, i)
  \/ \E c \in Clients, i \in 1..MaxLoads : LoadSentFails(c, i)

SpecLoad == Init /\ [][NextLoad]_vars

(***************************************************************************)
(* One session that keeps an address book and asks for money, and whose    *)
(* refreshes of the contacts and of the request lists may fail             *)
(***************************************************************************)
NextRefresh ==
  \/ \E c \in Clients : SignIn(c)
  \/ \E c \in Requesters : \E address \in ModalContacts(c) :
       CreateRequestFromModal(c, address, ModalAmount)
  \/ \E c \in Clients, address \in AddressInputs : TypeContactAddress(c, address)
  \/ \E c \in Clients : AddContact(c)
  \/ \E c \in Clients, contactId \in 1..MaxContacts : DeleteContact(c, contactId)
  \/ \E c \in Clients : StartContactsLoad(c)
  \/ \E c \in Clients, i \in 1..MaxLoads : ContactsLoaded(c, i)
  \/ \E c \in Clients, i \in 1..MaxLoads : ContactsProfileFails(c, i)
  \/ \E c \in Clients, i \in 1..MaxLoads : ContactsQueryFails(c, i)
  \/ \E c \in Clients : StartLoad(c)
  \/ \E c \in Clients, i \in 1..MaxLoads : LoadIncoming(c, i)
  \/ \E c \in Clients, i \in 1..MaxLoads : LoadIncomingFails(c, i)
  \/ \E c \in Clients, i \in 1..MaxLoads : LoadSent(c, i)
  \/ \E c \in Clients, i \in 1..MaxLoads : LoadProfileFails(c, i)
  \/ \E c \in Clients, i \in 1..MaxLoads : LoadSentFails(c, i)

SpecRefresh == InitSwitch /\ [][NextRefresh]_vars

(***************************************************************************)
(* One session that opens the page on tables that already hold many rows:  *)
(* what the loads write to the browser cache                               *)
(***************************************************************************)
HexDigits == <<"0", "1", "2", "3", "4", "5", "6", "7", "8", "9",
               "a", "b", "c", "d", "e", "f">>

\* The address of the i-th contact of a long address book.
ContactAddress(i) == <<"0", "x", HexDigits[(i \div 16) + 1], HexDigits[(i % 16) + 1]>>

\* The first session is signed in, both profiles exist, its address book holds
\* n contacts, it has sent k requests and j requests were sent to it.
Stored(n, k, j) ==
  /\ profiles = {[id |-> c, wallet_address |-> ToLowerCase(WalletOf(c)),
                  last_seen_at |-> c] : c \in Clients}
  /\ contacts = {[id |-> i, owner_id |-> 1, contact_wallet_address |-> ContactAddress(i)] :
                   i \in 1..n}
  /\ requests = [i \in 1..(k + j) |->
                   IF i <= k THEN PaymentRequestInsert(1, WalletOf(2), MicroUnits(ModalAmount))
                   ELSE PaymentRequestInsert(2, WalletOf(1), MicroUnits(ModalAmount))]
  /\ authUid = [c \in Clients |-> IF c = 1 THEN 1 ELSE 0]
  /\ nextUid = 3
  /\ currentWalletAddress = [c \in Clients |-> IF c = 1 THEN WalletOf(c) ELSE NoAddress]
  /\ paymentRequests = [c \in Clients |-> <<>>]
  /\ sentRequests = [c \in Clients |-> <<>>]
  /\ paymentRequestsError = [c \in Clients |-> "none"]
  /\ loads = [c \in Clients |-> <<>>]
  /\ cache = [c \in Clients |-> [w \in CacheKeys |-> NoCache]]
  /\ payingRequestId = [c \in Clients |-> 0]
  /\ payingRequestIdRef = [c \in Clients |-> 0]
  /\ isSending = [c \in Clients |-> FALSE]
  /\ callsStatus = [c \in Clients |-> "none"]
  /\ txHash = [c \in Clients |-> 0]
  /\ nextTx = 1
  /\ pendingTransfer = [c \in Clients |-> NoTransfer]
  /\ pendingTransferRef = [c \in Clients |-> NoTransfer]
  /\ isRecordingTransferRef = [c \in Clients |-> FALSE]
  /\ inflight = EmptyBag
  /\ updateCalls = EmptyBag
  /\ insertCalls = {}
  /\ form = [c \in Clients |-> "closed"]
  /\ newContactAddress = [c \in Clients |-> NoAddress]
  /\ addContactError = [c \in Clients |-> "none"]
  /\ contactsList = [c \in Clients |-> <<>>]
  /\ contactsError = [c \in Clients |-> "none"]
  /\ contactLoads = [c \in Clients |-> <<>>]
  /\ contactsCache = [c \in Clients |-> [w \in CacheKeys |-> NoContactsCache]]
  /\ isRefreshing = [c \in Clients |-> FALSE]
  /\ consoleErrors = [c \in Clients |-> {}]
  /\ modalAmount = [c \in Clients |-> <<>>]
  /\ modalError = [c \in Clients |-> "none"]
  /\ calls = [c \in Clients |-> NoCall]
  /\ receipts = <<>>

InitCache == \E n \in 0..MaxStored, k \in 0..MaxStored, j \in {0, 1} : Stored(n, k, j)

NextCache ==
  \/ \E c \in Clients : StartLoad(c)
  \/ \E c \in Clients : RefreshButton(c)
  \/ \E c \in Clients, i \in 1..MaxLoads : LoadIncoming(c, i)
  \/ \E c \in Clients, i \in 1..MaxLoads : LoadSent(c, i)
  \/ \E c \in Clients : StartContactsLoad(c)
  \/ \E c \in Clients, i \in 1..MaxLoads : ContactsLoaded(c, i)

SpecCache == InitCache /\ [][NextCache]_vars

(***************************************************************************)
(* One session that signs in and out (SettingsTab; useSupabaseWeb3Auth and *)
(* useCDPAuth signOut)                                                     *)
(***************************************************************************)
\* signOut: supabase.auth.signOut() ends the session.  The external wallet stays
\* connected (kind "wallet"); the embedded wallet is signed out with it and its
\* address goes away (kind "cdp").  Neither touches localStorage.
SignOut(c, kind) ==
  /\ authUid[c] # 0
  /\ nextUid <= MaxSignIns
  /\ authUid' = [authUid EXCEPT ![c] = 0]
  /\ currentWalletAddress' =
       [currentWalletAddress EXCEPT ![c] = IF kind = "cdp" THEN NoAddress ELSE @]
  /\ UNCHANGED <<dbVars, listVars, payVars, transferVars, netVars, formVars, hookVars, callVars>>

\* The embedded wallet is signed in again.
Reconnect(c) ==
  /\ currentWalletAddress[c] = NoAddress
  /\ currentWalletAddress' = [currentWalletAddress EXCEPT ![c] = WalletOf(c)]
  /\ UNCHANGED <<dbVars, authUid, listVars, payVars, transferVars, netVars, formVars,
                 hookVars, callVars>>

NextSession ==
  \/ \E c \in Clients : SignIn(c)
  \/ \E c \in Clients, kind \in {"wallet", "cdp"} : SignOut(c, kind)
  \/ \E c \in Requesters : Reconnect(c)
  \/ \E c \in Requesters : \E address \in ModalContacts(c) :
       CreateRequestFromModal(c, address, ModalAmount)
  \/ \E c \in Clients, address \in AddressInputs : TypeContactAddress(c, address)
  \/ \E c \in Clients : AddContact(c)
  \/ \E c \in Clients : StartLoad(c)
  \/ \E c \in Clients, i \in 1..MaxLoads : LoadIncoming(c, i)
  \/ \E c \in Clients, i \in 1..MaxLoads : LoadSent(c, i)
  \/ \E c \in Clients : StartContactsLoad(c)
  \/ \E c \in Clients, i \in 1..MaxLoads : ContactsLoaded(c, i)

SpecSession == InitSwitch /\ [][NextSession]_vars

(***************************************************************************)
(* components/RequestsTab.tsx: the history shown from the two lists        *)
(***************************************************************************)
HistoryFilters == {"all", "contacts-only", "external-only"}

\* rows.map(pr => ({ ...pr, direction }))
WithDirection(rows, direction) ==
  [k \in 1..Len(rows) |-> [direction |-> direction] @@ rows[k]]

\* The merge without the seenIds filter.
KeepDuplicates(entries) == entries

RECURSIVE DedupById(_)
\* The seenIds filter: the first entry of every id is kept.
DedupById(entries) ==
  IF entries = <<>> THEN <<>>
  ELSE LET before == DedupById(SubSeq(entries, 1, Len(entries) - 1))
           last == entries[Len(entries)]
       IN  IF \E k \in 1..Len(before) : before[k].id = last.id
           THEN before ELSE Append(before, last)

\* isContact
IsContact(c, address) ==
  /\ address # NoAddress
  /\ \E k \in 1..Len(contactsList[c]) :
       ToLowerCase(contactsList[c][k].contact_wallet_address) = ToLowerCase(address)

\* allHistory: the requests of both lists that are not pending, tagged, without
\* repeated ids, filtered by counterparty.  (Rows carry no dates in this model:
\* the final sort, which only reorders the entries, is left out.)
AllHistory(c, historyFilter) ==
  LET completedIncoming == SelectSeq(paymentRequests[c], LAMBDA pr : pr.status # "pending")
      completedSent == SelectSeq(sentRequests[c], LAMBDA pr : pr.status # "pending")
      allHistoryRaw == WithDirection(completedIncoming, "received")
                         \o WithDirection(completedSent, "sent")
      Shown(pr) ==
        LET otherAddress == IF pr.direction = "sent" THEN pr.payer_wallet_address
                            ELSE pr.profiles
        IN  CASE historyFilter = "all" -> TRUE
              [] historyFilter = "contacts-only" -> IsContact(c, otherAddress)
              [] historyFilter = "external-only" -> ~IsContact(c, otherAddress)
  IN  SelectSeq(DedupById(allHistoryRaw), Shown)

\* pendingIncoming, pendingSent
PendingIncoming(c) == SelectSeq(paymentRequests[c], LAMBDA pr : pr.status = "pending")
PendingSent(c) == SelectSeq(sentRequests[c], LAMBDA pr : pr.status = "pending")

(***************************************************************************)
(* One session that also asks itself for money, pays, cancels and rejects  *)
(***************************************************************************)
NextSelf ==
  \/ \E c \in Clients : SignIn(c)
  \/ \E c \in Requesters, address \in CacheKeys :
       CreateRequestFromModal(c, address, ModalAmount)
  \/ \E c \in Clients : TypeContactAddress(c, WalletOf(c))
  \/ \E c \in Clients : AddContact(c)
  \/ \E c \in Clients : StartContactsLoad(c)
  \/ \E c \in Clients, i \in 1..MaxLoads : ContactsLoaded(c, i)
  \/ \E c \in Clients : StartLoad(c)
  \/ \E c \in Clients, i \in 1..MaxLoads : LoadIncoming(c, i)
  \/ \E c \in Clients, i \in 1..MaxLoads : LoadSent(c, i)
  \/ \E c \in Clients, k \in 1..MaxRequests : CancelButton(c, k)
  \/ \E c \in Clients, k \in 1..MaxRequests : RejectButton(c, k)
  \/ \E c \in Clients, call \in UpdatesInFlight : CancelCompletes(c, call)
  \/ \E c \in Clients, k \in 1..MaxRequests : PayPaymentRequest(c, k)
  \/ \E c \in Clients : WalletAccepted(c)
  \/ \E c \in Clients : WalletSuccess(c)
  \/ \E c \in Clients, call \in UpdatesInFlight : PaidUpdateCompletes(c, call)

SpecSelf == InitSwitch /\ [][NextSelf]_vars

(***************************************************************************)
(* RequestMoneyModal                                                       *)
(***************************************************************************)
ProfileNotFound == "Profile not found. Please sign in again."
\* error.message of an insert the row-level security policy refuses.
InsertRefused == "new row violates row-level security policy"

\* The messages validateUSDCAmount gives.
ValidationErrors == {"Please enter an amount", MinimumError, MaximumError}

\* onChange of the amount field.
SetAmount(c, value) ==
  /\ currentWalletAddress[c] # NoAddress
  /\ modalAmount[c] # value
  /\ modalAmount' = [modalAmount EXCEPT ![c] = value]
  /\ UNCHANGED <<dbVars, authVars, listVars, payVars, transferVars, netVars, formVars,
                 contactVars, isRefreshing, consoleErrors, modalError,
                 callVars>>

\* A modal that resolves the profile first and validates the amount after.
RequestMoneyModalSubmitProfileFirst(c, address) ==
  LET validation == ValidateUSDCAmount(modalAmount[c])
      profileId == GetProfileIdByWallet(currentWalletAddress[c])
      row == PaymentRequestInsert(profileId, address, MicroUnits(validation.amount))
      Shown(error) ==
        /\ modalError' = [modalError EXCEPT ![c] = error]
        /\ UNCHANGED <<dbVars, authVars, listVars, payVars, transferVars, netVars,
                       formVars, contactVars, isRefreshing, consoleErrors, modalAmount,
                       callVars>>
  IN  /\ currentWalletAddress[c] # NoAddress
      /\ IF profileId = NoProfile THEN Shown(ProfileNotFound)
         ELSE IF ~validation.isValid THEN Shown(validation.error)
         ELSE /\ CreateRequest(c, address, validation.amount)
              /\ IF InsertAccepted(authUid[c], row)
                 THEN /\ modalError' = [modalError EXCEPT ![c] = "none"]
                      /\ modalAmount' = [modalAmount EXCEPT ![c] = <<>>]
                 ELSE /\ modalError' = [modalError EXCEPT ![c] = InsertRefused]
                      /\ UNCHANGED modalAmount

\* handleSubmit of the modal opened for the contact at `address`: an amount that
\* fails validation is reported and nothing is called; otherwise onRequest
\* (createRequestFromModal) runs, which closes the modal on success and whose error
\* is shown on failure.
RequestMoneyModalSubmit(c, address) ==
  LET validation == ValidateUSDCAmount(modalAmount[c])
      profileId == GetProfileIdByWallet(currentWalletAddress[c])
      row == PaymentRequestInsert(profileId, address, MicroUnits(validation.amount))
      Shown(error) ==
        /\ modalError' = [modalError EXCEPT ![c] = error]
        /\ UNCHANGED <<dbVars, authVars, listVars, payVars, transferVars, netVars,
                       formVars, contactVars, isRefreshing, consoleErrors, modalAmount,
                 callVars>>
  IN  /\ currentWalletAddress[c] # NoAddress
      /\ IF ~validation.isValid THEN Shown(validation.error)
         ELSE IF profileId = NoProfile THEN Shown(ProfileNotFound)
         ELSE /\ CreateRequest(c, address, validation.amount)
              /\ IF InsertAccepted(authUid[c], row)
                 THEN /\ modalError' = [modalError EXCEPT ![c] = "none"]
                      /\ modalAmount' = [modalAmount EXCEPT ![c] = <<>>]
                 ELSE /\ modalError' = [modalError EXCEPT ![c] = InsertRefused]
                      /\ UNCHANGED modalAmount

(***************************************************************************)
(* validateUSDCAmount over the amount strings: a modal that holds any      *)
(* string of the alphabet is submitted.                                    *)
(***************************************************************************)
InitValidate == \E typed \in AmountStrings : OpenedTyped({1}, typed)

NextValidate ==
  \/ \E c \in Requesters : SignIn(c)
  \/ \E c \in Requesters : \E address \in ModalContacts(c) :
       RequestMoneyModalSubmit(c, address)

SpecValidate == InitValidate /\ [][NextValidate]_vars

(***************************************************************************)
(* The request modal in use: amounts are typed, the modal is submitted for *)
(* the other wallet, spelled in mixed case, and the lists are fetched.     *)
(***************************************************************************)
HalfCent == <<"0", ".", "0", "0", "5">>
Ten == <<"1", "0">>
TypedAmounts == {<<>>, HalfCent, Ten, <<"1", "0", "0", "0", "1">>}

NextModal ==
  \/ \E c \in Requesters : SignIn(c)
  \/ \E c \in Requesters, value \in TypedAmounts : SetAmount(c, value)
  \/ \E c \in Requesters : \E address \in Wallets \ {WalletOf(c)} :
       RequestMoneyModalSubmit(c, address)
  \/ \E c \in Requesters : StartLoad(c)
  \/ \E c \in Requesters, i \in 1..MaxLoads : LoadIncoming(c, i)
  \/ \E c \in Requesters, i \in 1..MaxLoads : LoadSent(c, i)

SpecModal == InitSwitch /\ [][NextModal]_vars

(***************************************************************************)
(* usePaymentRequests: the 30 s interval                                   *)
(*                                                                         *)
(* The interval effect depends on currentWalletAddress, loadPaymentRequests *)
(* and isRefreshing: whenever isRefreshing changes the interval is cleared *)
(* and a new one is set, whose callback skips the call while isRefreshing  *)
(* is true.  Time is not modelled: the callback runs if the interval stays *)
(* set and calling for 30 s, which is weak fairness of the tick.           *)
(***************************************************************************)
\* The callback that sets the indicator, as the refresh button does.
IntervalTickShowsIndicator(c) ==
  /\ currentWalletAddress[c] # NoAddress
  /\ ~isRefreshing[c]
  /\ Len(loads[c]) < MaxLoads
  /\ isRefreshing' = [isRefreshing EXCEPT ![c] = TRUE]
  /\ paymentRequestsError' = [paymentRequestsError EXCEPT ![c] = "none"]
  /\ loads' = [loads EXCEPT ![c] =
       Append(@, [NewLoad(currentWalletAddress[c]) EXCEPT !.showRefreshIndicator = TRUE])]
  /\ UNCHANGED <<dbVars, authVars, paymentRequests, sentRequests, cache, payVars,
                 transferVars, netVars, formVars, contactVars, consoleErrors, modalVars,
                 callVars>>

\* The interval callback: if (!isRefreshing) loadPaymentRequests().
IntervalTick(c) ==
  /\ currentWalletAddress[c] # NoAddress
  /\ ~isRefreshing[c]
  /\ Len(loads[c]) < MaxLoads
  /\ paymentRequestsError' = [paymentRequestsError EXCEPT ![c] = "none"]
  /\ loads' = [loads EXCEPT ![c] = Append(@, NewLoad(currentWalletAddress[c]))]
  /\ UNCHANGED <<dbVars, authVars, paymentRequests, sentRequests, cache, payVars,
                 transferVars, netVars, formVars, hookVars, callVars>>

\* The first remote call of a load in flight is answered.
IncomingAnswered(c) ==
  \E i \in 1..MaxLoads : LoadIncoming(c, i) \/ LoadIncomingFails(c, i)

\* The remaining remote calls of a load in flight are answered.
SentAnswered(c) ==
  \E i \in 1..MaxLoads : LoadSent(c, i) \/ LoadProfileFails(c, i) \/ LoadSentFails(c, i)

NextInterval ==
  \/ \E c \in Requesters : SignIn(c)
  \/ \E c \in Requesters : \E address \in ModalContacts(c) :
       CreateRequestFromModal(c, address, ModalAmount)
  \/ \E c \in Requesters : IntervalTick(c)
  \/ \E c \in Requesters : RefreshButton(c)
  \/ \E c \in Requesters : IncomingAnswered(c)
  \/ \E c \in Requesters : SentAnswered(c)

\* A set interval fires and a remote call is answered; the user is under no obligation.
SpecInterval ==
  /\ InitSwitch
  /\ [][NextInterval]_vars
  /\ \A c \in Requesters :
       /\ WF_vars(IntervalTick(c))
       /\ WF_vars(IncomingAnswered(c))
       /\ WF_vars(SentAnswered(c))

(***************************************************************************)
(* Payments and direct transfers of one payer, the wallet answering either *)
(* way: a declined or failed call leaves its request id or its transfer    *)
(* behind for the next confirmation.                                       *)
(***************************************************************************)
NextLeftover ==
  \/ \E c \in Clients : SignIn(c)
  \/ \E c \in Requesters : \E address \in ModalContacts(c) :
       CreateRequestFromModal(c, address, ModalAmount)
  \/ \E c \in Payers : StartLoad(c)
  \/ \E c \in Payers, i \in 1..MaxLoads : LoadIncoming(c, i)
  \/ \E c \in Payers, i \in 1..MaxLoads : LoadSent(c, i)
  \/ \E c \in Payers, k \in 1..MaxRequests : PayPaymentRequest(c, k)
  \/ \E c \in Payers : \E address \in ModalContacts(c) :
       SendDirectMoney(c, address, ModalAmount)
  \/ \E c \in Payers : WalletAccepted(c)
  \/ \E c \in Payers : WalletRejected(c)
  \/ \E c \in Payers : WalletSuccess(c)
  \/ \E c \in Payers : WalletFailure(c)
  \/ \E c \in Payers, call \in UpdatesInFlight : PaidUpdateCompletes(c, call)
  \/ \E c \in Payers, call \in TransfersInFlight : RecordTransferCompletes(c, call)

SpecLeftover == Init /\ [][NextLeftover]_vars

\* The same session under the scheduling the code can count on: an open wallet
\* prompt is answered one way or the other, the wallet SDK brings a submitted
\* bundle to an end state and every remote call is answered; the user is under
\* no obligation to start anything.
SpecPay ==
  /\ Init
  /\ [][NextLeftover]_vars
  /\ \A c \in Payers :
       /\ WF_vars(WalletAccepted(c) \/ WalletRejected(c))
       /\ WF_vars(WalletSuccess(c) \/ WalletFailure(c))
       /\ WF_vars(\E call \in UpdatesInFlight : PaidUpdateCompletes(c, call))
       /\ WF_vars(\E call \in TransfersInFlight : RecordTransferCompletes(c, call))
       /\ WF_vars(\E i \in 1..MaxLoads : LoadIncoming(c, i) \/ LoadSent(c, i))

(***************************************************************************)
(* One session that creates requests both ways: from the request modal of  *)
(* a contact and from the form of the requests tab, before and after its   *)
(* profile exists.                                                         *)
(***************************************************************************)
NextCreate ==
  \/ \E c \in Requesters : SignIn(c)
  \/ \E c \in Requesters, value \in TypedAmounts : SetAmount(c, value)
  \/ \E c \in Requesters : \E address \in Wallets \ {WalletOf(c)} :
       RequestMoneyModalSubmit(c, address)
  \/ \E c \in Requesters : OpenForm(c, "request")
  \/ \E c \in Requesters, f \in EachPaysFullForms : SubmitRequestForm(c, f)
  \/ \E c \in Requesters : StartLoad(c)
  \/ \E c \in Requesters, i \in 1..MaxLoads : LoadIncoming(c, i)
  \/ \E c \in Requesters, i \in 1..MaxLoads : LoadSent(c, i)

SpecCreate == InitSwitch /\ [][NextCreate]_vars

(***************************************************************************)
(* Properties                                                              *)
(***************************************************************************)
RequestIds == 1..Len(requests)
Terminal == {"paid", "cancelled", "rejected", "expired"}

\* The status updates issued so far for one request, and those not yet answered.
IssuedFor(requestId) ==
  {call \in BagToSet(updateCalls) : call.requestId = requestId}
InFlightFor(requestId) ==
  {call \in UpdatesInFlight : call.requestId = requestId}
TimesIssuedFor(requestId) ==
  BagCardinality([call \in IssuedFor(requestId) |-> CopiesIn(call, updateCalls)])

\* C1: a confirmed payment causes exactly one update (paid, hash) for its request,
\* also when the confirmation effect runs again before the first update returned:
\* no update with status paid is ever issued twice.
C1_OnePaidUpdatePerPayment ==
  \A call \in BagToSet(updateCalls) :
    call.status = "paid" => CopiesIn(call, updateCalls) = 1

\* C2: paid, cancelled, rejected and expired are terminal: no step changes the
\* status of a request that is in one of them.
C2_TerminalStatusNeverChanges ==
  [][\A i \in RequestIds :
       requests[i].status \in Terminal => requests'[i].status = requests[i].status]_vars

\* C3: tx_hash is set exactly when paid_at is set, and a row that has either of
\* them has status paid.
C3_HashAndPaidAtOnlyOnPaid ==
  \A i \in RequestIds :
    /\ (requests[i].tx_hash # 0) <=> requests[i].paid_at
    /\ (requests[i].tx_hash # 0 \/ requests[i].paid_at) => requests[i].status = "paid"

\* C4: a cancel issued by a wallet that is not the requester of the request is
\* refused with an error and sends no update: every update to cancelled that was
\* sent came from the wallet of the request's requester.
C4_CancelOnlyByRequester ==
  \A call \in BagToSet(updateCalls) :
    (call.status = "cancelled" /\ call.requestId \in RequestIds)
      => call.by = ProfileWallet(requests[call.requestId].requester_id)

\* C5: a reject issued by a wallet whose lowercased address is not the request's
\* payer_wallet_address sends no update (every update to rejected came from the
\* payer's wallet), and the step that shows the authorization error sends nothing.
C5_RejectOnlyByPayer ==
  /\ [](\A call \in BagToSet(updateCalls) :
          (call.status = "rejected" /\ call.requestId \in RequestIds)
            => call.by = requests[call.requestId].payer_wallet_address)
  /\ [][\A c \in Clients :
          (/\ paymentRequestsError'[c] = "You can only reject requests sent to you"
           /\ paymentRequestsError'[c] # paymentRequestsError[c])
            => UNCHANGED <<inflight, updateCalls, requests>>]_vars

\* C5 witness: a session whose wallet is not the payer of a request it holds was
\* refused, and no update to rejected exists for that request.
C5_Witness ==
  \E c \in Clients, i \in RequestIds :
    /\ paymentRequestsError[c] = "You can only reject requests sent to you"
    /\ InList(paymentRequests[c] \o sentRequests[c], i)
    /\ requests[i].payer_wallet_address # ToLowerCase(currentWalletAddress[c])
    /\ \A call \in IssuedFor(i) : call.status # "rejected"

\* C6: a request that is paid, cancelled or rejected is never pending again.
C6_NeverBackToPending ==
  [][\A i \in RequestIds :
       requests[i].status \in {"paid", "cancelled", "rejected"}
         => requests'[i].status # "pending"]_vars

\* C6 witness: a request has left pending and two updates for it were answered.
C6_Witness ==
  \E i \in RequestIds :
    /\ requests[i].status \in {"paid", "cancelled", "rejected"}
    /\ TimesIssuedFor(i) >= 2
    /\ InFlightFor(i) = {}

\* C7: a direct transfer is stored as paid with its hash and payment time, and no
\* step changes its row afterwards.
C7_TransferStaysPaid ==
  /\ [](\A i \in RequestIds :
          requests[i].type = "transfer"
            => /\ requests[i].status = "paid"
               /\ requests[i].tx_hash # 0
               /\ requests[i].paid_at)
  /\ [][\A i \in RequestIds :
          requests[i].type = "transfer" => requests'[i] = requests[i]]_vars

\* C7 witness: a transfer is stored, a request was created after it, and an
\* update for that request was answered.
C7_Witness ==
  /\ Len(requests) = 2
  /\ requests[1].type = "transfer"
  /\ requests[2].type = "request"
  /\ requests[2].status # "pending"

\* The session's profile owns a contact with this address, in any spelling.
HasContact(c, address) ==
  \E x \in contacts :
    /\ x.owner_id = GetProfileIdByWallet(currentWalletAddress[c])
    /\ x.contact_wallet_address = ToLowerCase(address)

\* C8: an owner has at most one contact per address, and adding an address the
\* owner already has, in any spelling, ends with an error and stores nothing.
C8_OneContactPerOwnerAndAddress ==
  /\ [](\A x, y \in contacts :
          (/\ x.owner_id = y.owner_id
           /\ ToLowerCase(x.contact_wallet_address) = ToLowerCase(y.contact_wallet_address))
            => x = y)
  /\ [][\A c \in Clients :
          (HasContact(c, newContactAddress[c]) /\ addContactError'[c] # addContactError[c])
            => (addContactError'[c] # "none" /\ contacts' = contacts)]_vars

\* C8 witness: an address typed in mixed case, which the owner already has in
\* lower case, was refused as a duplicate.
C8_Witness ==
  \E c \in Clients :
    /\ addContactError[c] = "duplicate key value violates unique constraint"
    /\ newContactAddress[c] # ToLowerCase(newContactAddress[c])
    /\ HasContact(c, newContactAddress[c])

\* C9: every wallet address written to profiles, contacts or payment requests
\* is lowercased before it is sent: every insert issued carries a lowercase
\* address, and so does every stored row.
C9_AddressesLowercasedBeforeWrite ==
  /\ \A call \in insertCalls : call.address = ToLowerCase(call.address)
  /\ \A p \in profiles : p.wallet_address = ToLowerCase(p.wallet_address)
  /\ \A x \in contacts : x.contact_wallet_address = ToLowerCase(x.contact_wallet_address)
  /\ \A i \in RequestIds :
       requests[i].payer_wallet_address = ToLowerCase(requests[i].payer_wallet_address)

\* C9 witness: the profile of the checksummed wallet, a request and a transfer
\* are stored, and a contact typed in mixed case has met its lowercase row.
C9_Witness ==
  /\ \E p \in profiles : p.wallet_address = ToLowerCase(AddrA) /\ AddrA # ToLowerCase(AddrA)
  /\ \E i \in RequestIds : requests[i].type = "request"
  /\ \E i \in RequestIds : requests[i].type = "transfer"
  /\ \E c \in Clients :
       /\ newContactAddress[c] # ToLowerCase(newContactAddress[c])
       /\ addContactError[c] = "duplicate key value violates unique constraint"

\* C10: every insert of a payment request that a client issues carries an
\* amount above zero, whatever the split.
C10_InsertAmountsPositive ==
  \A call \in insertCalls : call.table = "payment_requests" => call.amount > 0

\* The messages an error string is made of.
ErrorParts(error) ==
  CASE error = "none" -> {}
    [] error = "Failed to fetch; Failed to load sent requests" ->
         {"Failed to fetch", "Failed to load sent requests"}
    [] error = "Failed to load sent requests; Failed to load sent requests" ->
         {"Failed to load sent requests"}
    [] error = "You can only cancel requests you created; Failed to load sent requests" ->
         {"You can only cancel requests you created", "Failed to load sent requests"}
    [] error = "You can only reject requests sent to you; Failed to load sent requests" ->
         {"You can only reject requests sent to you", "Failed to load sent requests"}
    [] OTHER -> {error}

\* C11: when the sent query of a load fails and its incoming query had
\* succeeded, the incoming list stays as it is shown, and the error shown
\* afterwards mentions the sent requests and keeps what was shown before.
C11_SentFailureKeepsIncoming ==
  [][\A c \in Clients, i \in 1..MaxLoads :
       (LoadSentFails(c, i) /\ ~loads[c][i].incomingFailed)
         => /\ paymentRequests'[c] = paymentRequests[c]
            /\ "Failed to load sent requests" \in ErrorParts(paymentRequestsError'[c])
            /\ ErrorParts(paymentRequestsError[c])
                 \subseteq ErrorParts(paymentRequestsError'[c])]_vars

\* C11 witness: a load has ended, the incoming requests it fetched are shown and
\* the error is the one of the sent requests.
C11_Witness ==
  \E c \in Clients :
    /\ loads[c] = <<>>
    /\ paymentRequests[c] # <<>>
    /\ paymentRequests[c] =
         GetIncomingPaymentRequests(authUid[c], currentWalletAddress[c])
    /\ paymentRequestsError[c] = "Failed to load sent requests"

\* C12: every remote call of a load that fails (the incoming query, the profile
\* lookup, the sent query) leaves an error string set.
C12_EveryLoadFailureShown ==
  [][\A c \in Clients, i \in 1..MaxLoads :
       (LoadIncomingFails(c, i) \/ LoadProfileFails(c, i) \/ LoadSentFails(c, i))
         => paymentRequestsError'[c] # "none"]_vars

\* C13: a refresh that fails leaves the lists in memory as they were: a failing
\* answer to a load of the request lists changes neither the incoming nor the
\* sent list, and a failing answer to a load of the contacts does not change
\* the contact list.
C13_FailedRefreshKeepsLists ==
  [][\A c \in Clients, i \in 1..MaxLoads :
       /\ (LoadIncomingFails(c, i) \/ LoadProfileFails(c, i) \/ LoadSentFails(c, i))
            => /\ paymentRequests'[c] = paymentRequests[c]
               /\ sentRequests'[c] = sentRequests[c]
       /\ (ContactsProfileFails(c, i) \/ ContactsQueryFails(c, i))
            => contactsList'[c] = contactsList[c]]_vars

\* C14: every list the browser cache holds for a wallet (contacts, incoming
\* requests, sent requests) has at most 20 items.
C14_CachedListsCapped ==
  \A c \in Clients, w \in CacheKeys :
    /\ Len(cache[c][w].incoming) <= MAX_CACHED_ITEMS
    /\ Len(cache[c][w].sent) <= MAX_CACHED_ITEMS
    /\ Len(contactsCache[c][w].items) <= MAX_CACHED_ITEMS

\* C15: once a sign-out has completed, browser storage holds no cached contacts
\* and no cached requests, for any wallet.
C15_SignOutClearsCache ==
  [][\A c \in Clients :
       (authUid[c] # 0 /\ authUid'[c] = 0)
         => \A w \in CacheKeys : ~cache'[c][w].present /\ ~contactsCache'[c][w].present]_vars

\* The entries of a list that carry this id.
EntriesOf(entries, requestId) ==
  Cardinality({k \in 1..Len(entries) : entries[k].id = requestId})

\* The ids a session holds both as incoming and as sent.
HeldTwice(c) ==
  {id \in RequestIds : InList(paymentRequests[c], id) /\ InList(sentRequests[c], id)}

\* C16 as stated: a request that the wallet holds both as incoming and as sent
\* has exactly one entry in the merged list.
C16_OneMergedEntry ==
  \A c \in Clients : \A id \in HeldTwice(c) : EntriesOf(AllHistory(c, "all"), id) = 1

\* C16: a request that the wallet holds both as incoming and as sent has at most
\* one entry in the merged history, whatever the filter; unfiltered it has exactly
\* one as soon as one of its two copies is no longer pending, tagged received
\* when the incoming copy is the one; while both copies are pending it is not in
\* the merged history and is listed once under incoming and once under sent.
C16_OneHistoryEntryOncePaidOrClosed ==
  \A c \in Clients : \A id \in HeldTwice(c) :
    LET incoming == FindById(paymentRequests[c], id)[1]
        sent == FindById(sentRequests[c], id)[1]
        history == AllHistory(c, "all")
    IN  /\ \A f \in HistoryFilters : EntriesOf(AllHistory(c, f), id) <= 1
        /\ (incoming.status # "pending" \/ sent.status # "pending")
             => /\ EntriesOf(history, id) = 1
                /\ \A k \in 1..Len(history) :
                     history[k].id = id =>
                       history[k].direction =
                         IF incoming.status # "pending" THEN "received" ELSE "sent"
        /\ (incoming.status = "pending" /\ sent.status = "pending")
             => /\ EntriesOf(history, id) = 0
                /\ EntriesOf(PendingIncoming(c), id) = 1
                /\ EntriesOf(PendingSent(c), id) = 1

\* C16 witness: a request the wallet made to itself was paid, both loaded copies
\* show it, and the merged history holds it once.
C16_Witness ==
  \E c \in Clients : \E id \in HeldTwice(c) :
    /\ FindById(paymentRequests[c], id)[1].status = "paid"
    /\ FindById(sentRequests[c], id)[1].status = "paid"
    /\ EntriesOf(AllHistory(c, "all"), id) = 1

\* A string is numeric when all of it, blanks at the ends aside, is a decimal literal.
IsNumeric(s) == ~ParseFloat(Trim(s)).isNaN /\ ParseFloat(Trim(s)).read = Len(Trim(s))

\* C17: with the default bounds validateUSDCAmount calls an amount string invalid
\* if and only if the string is empty or blank, is not numeric, is below 0.01 or is
\* above 10000; so a submitted modal shows a validation message exactly in these
\* cases.
C17_InvalidIffOutOfContract ==
  [][\A c \in Requesters : \A address \in ModalContacts(c) :
       RequestMoneyModalSubmit(c, address) =>
         ( modalError'[c] \in ValidationErrors
           <=> \/ Trim(modalAmount[c]) = <<>>
               \/ ~IsNumeric(modalAmount[c])
               \/ RatLess(ParseFloat(Trim(modalAmount[c])), MinAmount)
               \/ RatLess(MaxAmount, ParseFloat(Trim(modalAmount[c]))) )]_vars

\* The rows a request-creating call has asked the table to insert.
RequestInsertCalls == {call \in insertCalls : call.table = "payment_requests"}

\* C18 as stated: a request for 0.005 USDC is rejected with the message
\* "Minimum amount is $0.01 USDC USDC" and nothing is called.
C18_RejectedWithDoubledUnit ==
  [][\A c \in Requesters : \A address \in Wallets \ {WalletOf(c)} :
       RequestMoneyModalSubmit(c, address) /\ modalAmount[c] = HalfCent =>
         /\ modalError'[c] = "Minimum amount is $0.01 USDC USDC"
         /\ UNCHANGED <<dbVars, authVars, listVars, netVars>>]_vars

\* C18: a request for 0.005 USDC made in the request modal is rejected with the
\* message "Minimum amount is $0.01 USDC"; a submitted modal whose amount
\* validateUSDCAmount rejects shows the message of the validation and calls nothing
\* (no table and no call record changes).
C18_BelowMinimumRejectedWithoutCall ==
  [][\A c \in Requesters : \A address \in Wallets \ {WalletOf(c)} :
       RequestMoneyModalSubmit(c, address) =>
         /\ modalAmount[c] = HalfCent =>
              modalError'[c] = "Minimum amount is $0.01 USDC"
         /\ ~ValidateUSDCAmount(modalAmount[c]).isValid =>
              /\ modalError'[c] = ValidateUSDCAmount(modalAmount[c]).error
              /\ modalError'[c] # "none"
              /\ UNCHANGED <<dbVars, authVars, listVars, netVars>>]_vars

\* A signed-in session whose modal, holding 0.005, shows the minimum message while
\* no request was ever asked of the table.
C18_Witness ==
  \E c \in Requesters :
    /\ Authenticated(c)
    /\ modalAmount[c] = HalfCent
    /\ modalError[c] = MinimumError
    /\ RequestInsertCalls = {}
    /\ requests = <<>>

\* C19: once a request for 10 USDC was made for an address spelled in mixed case
\* (the only request in the table), a fetch of the sent requests of the requester
\* gives a list of exactly one entry: pending, of 10,000,000 micro-units, its
\* payer_wallet_address the lowercased address and not the spelling passed in.
C19_SentListHoldsLowercasedRequest ==
  [][\A c \in Requesters, i \in 1..MaxLoads :
       LoadSent(c, i) /\ Len(requests) = 1 /\ Authenticated(c) =>
         /\ Len(sentRequests'[c]) = 1
         /\ sentRequests'[c][1].status = "pending"
         /\ sentRequests'[c][1].amount = 10000000
         /\ \E address \in Wallets \ {WalletOf(c)} :
              /\ address # ToLowerCase(address)
              /\ sentRequests'[c][1].payer_wallet_address = ToLowerCase(address)]_vars

\* The sent list of a signed-in requester holds the one request of the table.
C19_Witness ==
  \E c \in Requesters :
    /\ Authenticated(c)
    /\ Len(requests) = 1
    /\ InsertCall("payment_requests", ToLowerCase(AddrB), 10000000) \in insertCalls
    /\ Len(sentRequests[c]) = 1
    /\ sentRequests[c][1].payer_wallet_address = ToLowerCase(AddrB)

C21_SignInRefreshesLastSeen ==
  [][\A c \in Clients :
       SignIn(c) /\ GetProfileIdByWallet(currentWalletAddress[c]) # NoProfile =>
         \E p \in profiles' :
           /\ p.wallet_address = ToLowerCase(currentWalletAddress[c])
           /\ p.last_seen_at = Now]_vars

\* C22: a request is marked paid only with the hash of the transaction that was
\* submitted to pay that same request: the hash stored with a paid request is the
\* hash of a confirmed transaction whose call was made for that request.
C22_PaidWithOwnTransaction ==
  \A id \in RequestIds :
    requests[id].type = "request" /\ requests[id].status = "paid" =>
      /\ requests[id].tx_hash \in 1..Len(receipts)
      /\ receipts[requests[id].tx_hash].requestId = id

\* The rows createDirectTransfer has stored.
TransferIds == {id \in RequestIds : requests[id].type = "transfer"}

\* C23: each direct transfer is recorded once, after the transaction submitted for
\* it has confirmed and with the hash of that transaction: the hash of a recorded
\* transfer is the hash of a confirmed transaction whose call sent that amount to
\* that address outside any request, and no two records carry the same hash.
C23_TransferRecordedWithOwnTransaction ==
  /\ \A id \in TransferIds :
       /\ requests[id].tx_hash \in 1..Len(receipts)
       /\ receipts[requests[id].tx_hash].requestId = 0
       /\ ToLowerCase(receipts[requests[id].tx_hash].toAddress)
            = requests[id].payer_wallet_address
       /\ receipts[requests[id].tx_hash].amount = requests[id].amount
  /\ \A id, other \in TransferIds :
       requests[id].tx_hash = requests[other].tx_hash => id = other

\* C24: after a wallet switch the in-memory lists never hold requests loaded for the
\* previous wallet: every entry of the incoming list has the current wallet as its
\* payer and every entry of the sent list has the profile of the current wallet as
\* its requester.
C24_ListsBelongToCurrentWallet ==
  \A c \in Clients :
    /\ \A k \in 1..Len(paymentRequests[c]) :
         paymentRequests[c][k].payer_wallet_address
           = ToLowerCase(currentWalletAddress[c])
    /\ \A k \in 1..Len(sentRequests[c]) :
         ProfileWallet(sentRequests[c][k].requester_id)
           = ToLowerCase(currentWalletAddress[c])

\* C25: a load in which the incoming or the sent query failed does not overwrite a
\* previously cached list with an empty list: the step that ends such a load leaves
\* a cached incoming list and a cached sent list that held items holding items.
C25_FailedLoadKeepsCachedLists ==
  [][\A c \in Clients, i \in 1..MaxLoads :
       \/ LoadSentFails(c, i)
       \/ LoadProfileFails(c, i)
       \/ LoadSent(c, i) /\ loads[c][i].incomingFailed
       => \A w \in CacheKeys :
            /\ cache[c][w].incoming # <<>> => cache'[c][w].incoming # <<>>
            /\ cache[c][w].sent # <<>> => cache'[c][w].sent # <<>>]_vars

\* C27: in a submission of the request form for one or more recipients, a
\* recipient whose insert returned an error is counted as a failure and reported
\* in the error the user sees, and the form is closed only if every insert
\* succeeded: a submission with a refused insert shows an error and leaves the
\* form open.
C27_FailedInsertReportedAndFormKept ==
  [][\A c \in Clients, f \in FilledForms :
       LET profileId == GetProfileIdByWallet(currentWalletAddress[c])
           calculated == CalculateAmounts(f)
           refused == \E i \in 1..Len(calculated) :
                        ~InsertAccepted(authUid[c],
                                        PaymentRequestInsert(profileId, calculated[i].address,
                                                             MicroUnits(calculated[i].amount)))
       IN  (SubmitRequestForm(c, f) /\ profileId # NoProfile /\ refused)
             => /\ paymentRequestsError'[c] # "none"
                /\ form'[c] = "request"]_vars

C28_PendingTransferOfEveryRecipientKept ==
  [][\A c \in Clients, f \in EachPaysFullForms :
       SubmitSendForm(c, f)
         => \A i \in 1..Len(CalculateAmounts(f)) :
              /\ pendingTransferRef'[c].toAddress = CalculateAmounts(f)[i].address
              /\ pendingTransfer'[c].toAddress = CalculateAmounts(f)[i].address]_vars

\* C29: after a pay attempt has ended without a confirmed transaction (the user
\* declined in the wallet, or the wallet SDK reported failure), payingRequestId
\* and payingRequestIdRef are eventually cleared.
C29_EndedPayAttemptClearsPayingId ==
  \A c \in Clients :
    (/\ payingRequestId[c] # 0
     /\ ~isSending[c]
     /\ callsStatus[c] \in {"none", "failure"})
      ~> (payingRequestId[c] = 0 /\ payingRequestIdRef[c] = 0)

====
